---- MODULE Spec2Model ----
(***************************************************************************)
(* The trust-graph core of clawstr-cli: the contacts, mutes and            *)
(* graph_cache tables of the social database, the trust distance resolver  *)
(* and filter (src/lib/social/graph.ts), the contact and mute stores, and  *)
(* the graph sync command that repopulates the three tables from relays.   *)
(***************************************************************************)
EXTENDS Integers, Sequences, FiniteSets, TLC

\* ------------------------------------------------------------------ values

\* The pubkeys of the graph test fixtures ('m'.repeat(64), 'a'.repeat(64), ...).
ME == "m"
ALICE == "a"
BOB == "b"
CHARLIE == "c"
DAVE == "d"
EVE == "e"
STRANGER == "s"
SPAMMER == "x"

\* The pubkeys the library-level and command-level specifications draw from.
PUBKEYS == {ME, ALICE, BOB}

\* The feed of the web-of-trust integration test, in its order.
feedAuthors == <<ME, ALICE, BOB, CHARLIE, DAVE, EVE, STRANGER, SPAMMER>>

\* An argument the caller left out (JavaScript undefined), and SQL NULL in a
\* text column.
UNDEFINED == "undefined"
NULL == "NULL"

\* getTrustDistance's "not in graph" result (JavaScript null); every known
\* distance of the model is >= 0.
null == -1

\* Bounds of the model.
MaxEdges == 2
MaxCached == 1
MaxLen == 2
MaxEvents == 2
MaxAuthors == 2
MaxTime == 1
MaxInput == 4
MaxRelays == 2
MaxFilters == 2
MaxOpens == 2

\* The distances updateGraphCache is called with (sync uses 1; 0 is the
\* smallest value the GraphEdge data model allows).
DISTANCES == {0, 1}

\* The maxDistance arguments of filterByTrustDistance: a negative one, and 0
\* up to the largest distance a cache of DISTANCES resolves.
MAX_DISTANCES == -1 .. 2

\* The --depth option of graph sync (default 2).
DEPTHS == {1, 2, 3}

\* All sequences over S of length at most n.
SeqsUpTo(S, n) == UNION {[1..k -> S] : k \in 0..n}

Range(s) == {s[i] : i \in DOMAIN s}

\* SQL MIN over a non-empty set of integers.
MIN(S) == CHOOSE m \in S : \A x \in S : m <= x

\* JavaScript `v || null` on an optional string: undefined and '' are falsy.
orNull(v) == IF v = UNDEFINED \/ v = "" THEN NULL ELSE v

\* JavaScript t[i] on an array (0-based in the source, 1-based here):
\* undefined past the end.
At(t, i) == IF i \in DOMAIN t THEN t[i] ELSE UNDEFINED

\* ------------------------------------------------------------------ state

VARIABLES
    contacts,     \* table contacts: pubkey -> [relay, petname, added_at]
    mutes,        \* table mutes: pubkey -> [added_at]
    graph_cache,  \* table graph_cache: <<source, target>> -> [distance, updated_at]
    now,          \* the clock strftime('%s', 'now') reads
    pc,           \* position of a running graph sync, "idle" when none runs
    depth,        \* the depth option of the running graph sync, 0 when none runs
    result        \* what the last query or command returned; in SpecDb the state of db.ts

vars == <<contacts, mutes, graph_cache, now, pc, depth, result>>

\* A table with no rows (CREATE TABLE IF NOT EXISTS on a fresh file, DELETE FROM).
EmptyTable == <<>>

NoResult == [op |-> "none"]

\* Mutant of insertOrReplace: the table is replaced by the one row.
insertOnlyRow(tbl, key, row) == [k \in {key} |-> row]

\* INSERT OR REPLACE on the primary key.
insertOrReplace(tbl, key, row) ==
    [k \in (DOMAIN tbl) \cup {key} |-> IF k = key THEN row ELSE tbl[k]]

\* Mutant of deleteRow: DELETE FROM without the WHERE clause.
deleteEveryRow(tbl, key) == <<>>

\* DELETE FROM ... WHERE <primary key> = key.
deleteRow(tbl, key) == [k \in (DOMAIN tbl) \ {key} |-> tbl[k]]

\* result.changes of a DELETE: the number of rows it removed.
changes(before, after) == Cardinality(DOMAIN before) - Cardinality(DOMAIN after)

\* stmt.run(...params) throws when a parameter is undefined: the driver binds
\* numbers, strings, bigints, buffers and null only.
runThrows(params) == \E i \in DOMAIN params : params[i] = UNDEFINED

\* Mutant of transaction: no ROLLBACK, the rows written before the throw stay.
transactionNoRollback(before, run) == run

\* db.transaction(fn)(...): BEGIN, fn, COMMIT; when fn throws, ROLLBACK to the
\* table as it was and the exception goes on to the caller.
transaction(before, run) ==
    IF run.threw THEN [db |-> before, threw |-> TRUE] ELSE run

Init ==
    /\ contacts = EmptyTable
    /\ mutes = EmptyTable
    /\ graph_cache = EmptyTable
    /\ now = 0
    /\ pc = "idle"
    /\ depth = 0
    /\ result = NoResult

\* One second passes on the clock the INSERT statements read.
Tick ==
    /\ pc = "idle"
    /\ now < MaxTime
    /\ now' = now + 1
    /\ UNCHANGED <<contacts, mutes, graph_cache, pc, depth, result>>

\* ------------------------------------------------------------------ contacts

contactRow(relay, petname, t) ==
    [relay |-> orNull(relay), petname |-> orNull(petname), added_at |-> t]

\* Mutant of addContact: an omitted relay or petname keeps the stored value.
addContactMerging(pubkey, relay, petname) ==
    /\ pc = "idle"
    /\ contacts' = insertOrReplace(contacts, pubkey,
           [relay |-> IF relay = UNDEFINED /\ pubkey \in DOMAIN contacts
                      THEN contacts[pubkey].relay ELSE orNull(relay),
            petname |-> IF petname = UNDEFINED /\ pubkey \in DOMAIN contacts
                        THEN contacts[pubkey].petname ELSE orNull(petname),
            added_at |-> now])
    /\ UNCHANGED <<mutes, graph_cache, now, pc, depth, result>>

addContact(pubkey, relay, petname) ==
    /\ pc = "idle"
    /\ contacts' = insertOrReplace(contacts, pubkey, contactRow(relay, petname, now))
    /\ UNCHANGED <<mutes, graph_cache, now, pc, depth, result>>

removeContact(pubkey) ==
    /\ pc = "idle"
    /\ contacts' = deleteRow(contacts, pubkey)
    /\ UNCHANGED <<mutes, graph_cache, now, pc, depth, result>>

\* What removeContact(pubkey) returns: result.changes > 0.
removeContactReturns(pubkey) == changes(contacts, deleteRow(contacts, pubkey)) > 0

isContact(pubkey) == pubkey \in DOMAIN contacts

getContactCount == Cardinality(DOMAIN contacts)

\* Mutant of clearContacts: the DELETE also empties the mutes table.
clearContactsAndMutes ==
    /\ pc = "idle"
    /\ contacts' = EmptyTable
    /\ mutes' = EmptyTable
    /\ UNCHANGED <<graph_cache, now, pc, depth, result>>

clearContacts ==
    /\ pc = "idle"
    /\ contacts' = EmptyTable
    /\ UNCHANGED <<mutes, graph_cache, now, pc, depth, result>>

\* Mutant of forEachContact: a pubkey already written by this batch is skipped.
RECURSIVE forEachContactFirstWins(_, _, _)
forEachContactFirstWins(tbl, items, t) ==
    IF items = <<>> THEN [db |-> tbl, threw |-> FALSE]
    ELSE IF runThrows(<<Head(items).pubkey>>) THEN [db |-> tbl, threw |-> TRUE]
    ELSE forEachContactFirstWins(
             insertOrReplace(tbl, Head(items).pubkey,
                             contactRow(Head(items).relay, Head(items).petname, t)),
             SelectSeq(Tail(items), LAMBDA c : c.pubkey # Head(items).pubkey), t)

\* for (const contact of contacts) stmt.run(...): the rows in order, up to
\* the first stmt.run that throws.
RECURSIVE forEachContact(_, _, _)
forEachContact(tbl, items, t) ==
    IF items = <<>> THEN [db |-> tbl, threw |-> FALSE]
    ELSE IF runThrows(<<Head(items).pubkey>>) THEN [db |-> tbl, threw |-> TRUE]
    ELSE forEachContact(
             insertOrReplace(tbl, Head(items).pubkey,
                             contactRow(Head(items).relay, Head(items).petname, t)),
             Tail(items), t)

\* The insertMany transaction of bulkInsertContacts.
insertManyContacts(tbl, items, t) == transaction(tbl, forEachContact(tbl, items, t))

bulkInsertContacts(items) ==
    /\ pc = "idle"
    /\ contacts' = insertManyContacts(contacts, items, now).db
    /\ UNCHANGED <<mutes, graph_cache, now, pc, depth, result>>

\* ------------------------------------------------------------------ mutes

addMute(pubkey) ==
    /\ pc = "idle"
    /\ mutes' = insertOrReplace(mutes, pubkey, [added_at |-> now])
    /\ UNCHANGED <<contacts, graph_cache, now, pc, depth, result>>

removeMute(pubkey) ==
    /\ pc = "idle"
    /\ mutes' = deleteRow(mutes, pubkey)
    /\ UNCHANGED <<contacts, graph_cache, now, pc, depth, result>>

\* What removeMute(pubkey) returns: result.changes > 0.
removeMuteReturns(pubkey) == changes(mutes, deleteRow(mutes, pubkey)) > 0

isMuted(pubkey) == pubkey \in DOMAIN mutes

getMuteCount == Cardinality(DOMAIN mutes)

clearMutes ==
    /\ pc = "idle"
    /\ mutes' = EmptyTable
    /\ UNCHANGED <<contacts, graph_cache, now, pc, depth, result>>

\* for (const pubkey of pubkeys) stmt.run(pubkey): up to the first throw.
RECURSIVE forEachMute(_, _, _)
forEachMute(tbl, pubkeys, t) ==
    IF pubkeys = <<>> THEN [db |-> tbl, threw |-> FALSE]
    ELSE IF runThrows(<<Head(pubkeys)>>) THEN [db |-> tbl, threw |-> TRUE]
    ELSE forEachMute(insertOrReplace(tbl, Head(pubkeys), [added_at |-> t]),
                     Tail(pubkeys), t)

\* The insertMany transaction of bulkInsertMutes.
insertManyMutes(tbl, pubkeys, t) == transaction(tbl, forEachMute(tbl, pubkeys, t))

bulkInsertMutes(pubkeys) ==
    /\ pc = "idle"
    /\ mutes' = insertManyMutes(mutes, pubkeys, now).db
    /\ UNCHANGED <<contacts, graph_cache, now, pc, depth, result>>

\* ------------------------------------------------------------------ graph cache

\* Mutant of insertManyEdges: the loop ends after the first follow.
insertManyEdgesFirstOnly(tbl, sourcePubkey, follows, distance, t) ==
    IF follows = <<>> THEN [db |-> tbl, threw |-> FALSE]
    ELSE IF runThrows(<<sourcePubkey, Head(follows)>>)
    THEN [db |-> tbl, threw |-> TRUE]
    ELSE [db |-> insertOrReplace(tbl, <<sourcePubkey, Head(follows)>>,
                                 [distance |-> distance, updated_at |-> t]),
          threw |-> FALSE]

\* Mutant of forEachFollow: a pair that is cached has its distance raised by
\* one in place of being overwritten.
RECURSIVE forEachFollowCountingRepeats(_, _, _, _, _)
forEachFollowCountingRepeats(tbl, sourcePubkey, follows, distance, t) ==
    IF follows = <<>> THEN [db |-> tbl, threw |-> FALSE]
    ELSE IF runThrows(<<sourcePubkey, Head(follows)>>)
    THEN [db |-> tbl, threw |-> TRUE]
    ELSE forEachFollowCountingRepeats(
             insertOrReplace(tbl, <<sourcePubkey, Head(follows)>>,
                 [distance |-> IF <<sourcePubkey, Head(follows)>> \in DOMAIN tbl
                               THEN tbl[<<sourcePubkey, Head(follows)>>].distance + 1
                               ELSE distance,
                  updated_at |-> t]),
             sourcePubkey, Tail(follows), distance, t)

\* Mutant of forEachFollow: a cached pair keeps the smaller of its stored
\* distance and the new one.
RECURSIVE forEachFollowKeepMin(_, _, _, _, _)
forEachFollowKeepMin(tbl, sourcePubkey, follows, distance, t) ==
    IF follows = <<>> THEN [db |-> tbl, threw |-> FALSE]
    ELSE IF runThrows(<<sourcePubkey, Head(follows)>>)
    THEN [db |-> tbl, threw |-> TRUE]
    ELSE forEachFollowKeepMin(
             insertOrReplace(tbl, <<sourcePubkey, Head(follows)>>,
                 [distance |-> IF /\ <<sourcePubkey, Head(follows)>> \in DOMAIN tbl
                                  /\ tbl[<<sourcePubkey, Head(follows)>>].distance < distance
                               THEN tbl[<<sourcePubkey, Head(follows)>>].distance
                               ELSE distance,
                  updated_at |-> t]),
             sourcePubkey, Tail(follows), distance, t)

\* for (const targetPubkey of follows) stmt.run(...): one edge per follow, up
\* to the first stmt.run that throws.
RECURSIVE forEachFollow(_, _, _, _, _)
forEachFollow(tbl, sourcePubkey, follows, distance, t) ==
    IF follows = <<>> THEN [db |-> tbl, threw |-> FALSE]
    ELSE IF runThrows(<<sourcePubkey, Head(follows)>>)
    THEN [db |-> tbl, threw |-> TRUE]
    ELSE forEachFollow(
             insertOrReplace(tbl, <<sourcePubkey, Head(follows)>>,
                             [distance |-> distance, updated_at |-> t]),
             sourcePubkey, Tail(follows), distance, t)

\* The insertMany transaction of updateGraphCache.
insertManyEdges(tbl, sourcePubkey, follows, distance, t) ==
    transaction(tbl, forEachFollow(tbl, sourcePubkey, follows, distance, t))

updateGraphCache(sourcePubkey, follows, distance) ==
    /\ pc = "idle"
    /\ graph_cache' = insertManyEdges(graph_cache, sourcePubkey, follows, distance, now).db
    /\ UNCHANGED <<contacts, mutes, now, pc, depth, result>>

\* Mutant of clearGraphCache: the DELETE also empties the contacts table.
clearGraphCacheAndContacts ==
    /\ pc = "idle"
    /\ graph_cache' = EmptyTable
    /\ contacts' = EmptyTable
    /\ UNCHANGED <<mutes, now, pc, depth, result>>

clearGraphCache ==
    /\ pc = "idle"
    /\ graph_cache' = EmptyTable
    /\ UNCHANGED <<contacts, mutes, now, pc, depth, result>>

\* Mutant of cacheRows: the source and target columns exchanged.
cacheRowsSwapped(targetPubkey) ==
    {e \in DOMAIN graph_cache : e[2] \in DOMAIN contacts /\ e[1] = targetPubkey}

\* Mutant of cacheRows: the restriction of the source to contacts left out.
cacheRowsAnySource(targetPubkey) ==
    {e \in DOMAIN graph_cache : e[2] = targetPubkey}

\* The rows the cache lookup selects: source_pubkey IN (SELECT pubkey FROM
\* contacts) AND target_pubkey = ?.
cacheRows(targetPubkey) ==
    {e \in DOMAIN graph_cache : e[1] \in DOMAIN contacts /\ e[2] = targetPubkey}

\* Mutant of cacheDistance: SELECT MIN(distance), the + 1 left out.
cacheDistanceNoIncrement(targetPubkey) ==
    IF cacheRows(targetPubkey) = {} THEN null
    ELSE MIN({graph_cache[e].distance : e \in cacheRows(targetPubkey)})

\* SELECT MIN(distance) + 1: NULL (then null) when no row is selected.
cacheDistance(targetPubkey) ==
    IF cacheRows(targetPubkey) = {} THEN null
    ELSE MIN({graph_cache[e].distance : e \in cacheRows(targetPubkey)}) + 1

\* new Set(getContacts().map((c) => c.pubkey)).
contactPubkeys == DOMAIN contacts

\* Mutant of getTrustDistance: the contact check made before the self check.
getTrustDistanceContactFirst(targetPubkey, myPubkey) ==
    IF targetPubkey \in contactPubkeys THEN 1
    ELSE IF targetPubkey = myPubkey THEN 0
    ELSE cacheDistance(targetPubkey)

getTrustDistance(targetPubkey, myPubkey) ==
    IF targetPubkey = myPubkey THEN 0
    ELSE IF targetPubkey \in contactPubkeys THEN 1
    ELSE cacheDistance(targetPubkey)

\* Mutant of keepAuthor: the mute check left out.
keepAuthorNoMuteCheck(pubkey, myPubkey, maxDistance) ==
    IF getTrustDistance(pubkey, myPubkey) = null THEN FALSE
    ELSE getTrustDistance(pubkey, myPubkey) <= maxDistance

\* Mutant of keepAuthor: distance < maxDistance in place of <=.
keepAuthorStrictlyBelow(pubkey, myPubkey, maxDistance) ==
    IF isMuted(pubkey) THEN FALSE
    ELSE IF getTrustDistance(pubkey, myPubkey) = null THEN FALSE
    ELSE getTrustDistance(pubkey, myPubkey) < maxDistance

\* Mutant of keepAuthor: distance === maxDistance in place of <=.
keepAuthorExactlyAt(pubkey, myPubkey, maxDistance) ==
    IF isMuted(pubkey) THEN FALSE
    ELSE IF getTrustDistance(pubkey, myPubkey) = null THEN FALSE
    ELSE getTrustDistance(pubkey, myPubkey) = maxDistance

\* The predicate of pubkeys.filter(...).
keepAuthor(pubkey, myPubkey, maxDistance) ==
    IF isMuted(pubkey) THEN FALSE
    ELSE IF getTrustDistance(pubkey, myPubkey) = null THEN FALSE
    ELSE getTrustDistance(pubkey, myPubkey) <= maxDistance

\* Mutant of filterByTrustDistance: the input de-duplicated before filtering.
RECURSIVE filterByTrustDistanceUnique(_, _, _)
filterByTrustDistanceUnique(pubkeys, myPubkey, maxDistance) ==
    IF pubkeys = <<>> THEN <<>>
    ELSE (IF keepAuthor(Head(pubkeys), myPubkey, maxDistance)
          THEN <<Head(pubkeys)>> ELSE <<>>)
         \o filterByTrustDistanceUnique(
                SelectSeq(Tail(pubkeys), LAMBDA x : x # Head(pubkeys)),
                myPubkey, maxDistance)

RECURSIVE filterByTrustDistance(_, _, _)
filterByTrustDistance(pubkeys, myPubkey, maxDistance) ==
    IF pubkeys = <<>> THEN <<>>
    ELSE (IF keepAuthor(Head(pubkeys), myPubkey, maxDistance)
          THEN <<Head(pubkeys)>> ELSE <<>>)
         \o filterByTrustDistance(Tail(pubkeys), myPubkey, maxDistance)

\* Mutant of getGraphStats: totalNodes counts sources and targets.
getGraphStatsCountingSources ==
    [totalNodes |-> Cardinality({e[1] : e \in DOMAIN graph_cache}
                                \cup {e[2] : e \in DOMAIN graph_cache}),
     totalEdges |-> Cardinality(DOMAIN graph_cache),
     maxDistance |-> IF DOMAIN graph_cache = {} THEN 0
                     ELSE CHOOSE m \in {graph_cache[e].distance : e \in DOMAIN graph_cache} :
                              \A e \in DOMAIN graph_cache : graph_cache[e].distance <= m]

getGraphStats ==
    [totalNodes |-> Cardinality({e[2] : e \in DOMAIN graph_cache}),
     totalEdges |-> Cardinality(DOMAIN graph_cache),
     maxDistance |-> IF DOMAIN graph_cache = {} THEN 0
                     ELSE CHOOSE m \in {graph_cache[e].distance : e \in DOMAIN graph_cache} :
                              \A e \in DOMAIN graph_cache : graph_cache[e].distance <= m]

\* ------------------------------------------------------------------ graph sync

\* keyPair.publicKey of the identity the commands load.
myPublicKey == ME

isPTag(t) == At(t, 1) = "p"

\* event.tags.filter((t) => t[0] === 'p').
pTags(tags) == SelectSeq(tags, isPTag)

\* pTags.map((t) => ({ pubkey: t[1], relay: t[2], petname: t[3] })).
contactsOfEvent(event) ==
    [i \in 1..Len(pTags(event.tags)) |->
        [pubkey |-> At(pTags(event.tags)[i], 2),
         relay |-> At(pTags(event.tags)[i], 3),
         petname |-> At(pTags(event.tags)[i], 4)]]

\* pTags.map((t) => t[1]).
pubkeysOfEvent(event) ==
    [i \in 1..Len(pTags(event.tags)) |-> At(pTags(event.tags)[i], 2)]

\* Mutant of cacheFollowLists: the follow lists are cached at distance 2.
RECURSIVE cacheFollowListsAtTwo(_, _, _)
cacheFollowListsAtTwo(tbl, followsEvents, t) ==
    IF followsEvents = <<>> THEN [db |-> tbl, threw |-> FALSE]
    ELSE LET run == insertManyEdges(tbl, Head(followsEvents).pubkey,
                                    pubkeysOfEvent(Head(followsEvents)), 2, t)
         IN IF run.threw THEN run
            ELSE cacheFollowListsAtTwo(run.db, Tail(followsEvents), t)

\* The loop over followsEvents: updateGraphCache(event.pubkey, follows, 1)
\* each, ended by the first call that throws.
RECURSIVE cacheFollowLists(_, _, _)
cacheFollowLists(tbl, followsEvents, t) ==
    IF followsEvents = <<>> THEN [db |-> tbl, threw |-> FALSE]
    ELSE LET run == insertManyEdges(tbl, Head(followsEvents).pubkey,
                                    pubkeysOfEvent(Head(followsEvents)), 1, t)
         IN IF run.threw THEN run
            ELSE cacheFollowLists(run.db, Tail(followsEvents), t)

\* What a graph sync leaves in result: running, ended normally, or ended by
\* process.exit(1) in the catch block.
syncResult(status) == [op |-> "graphSync", status |-> status]

\* graphSyncCommand up to its first await: the contact-list query is sent.
graphSyncStart(d) ==
    /\ pc = "idle"
    /\ pc' = "contactList"
    /\ depth' = d
    /\ result' = syncResult("running")
    /\ UNCHANGED <<contacts, mutes, graph_cache, now>>

\* Mutant of syncContactList: clearContacts and bulkInsertContacts in one
\* transaction, rolled back as a whole.
syncContactListInOneTransaction(tbl, contactEvents, t) ==
    IF Len(contactEvents) > 0
    THEN transaction(tbl, insertManyContacts(EmptyTable,
                              contactsOfEvent(contactEvents[1]), t))
    ELSE [db |-> tbl, threw |-> FALSE]

\* What the contact step does to the table: with a record, clearContacts
\* and then bulkInsertContacts of the p tags of the first one.
syncContactList(tbl, contactEvents, t) ==
    IF Len(contactEvents) > 0
    THEN insertManyContacts(EmptyTable, contactsOfEvent(contactEvents[1]), t)
    ELSE [db |-> tbl, threw |-> FALSE]

\* What the mute step does to the table: with a record, clearMutes and then
\* bulkInsertMutes of the p tags of the first one.
syncMuteList(tbl, muteEvents, t) ==
    IF Len(muteEvents) > 0
    THEN insertManyMutes(EmptyTable, pubkeysOfEvent(muteEvents[1]), t)
    ELSE [db |-> tbl, threw |-> FALSE]

\* Mutant of graphSyncContactList: clearContacts is called before the
\* length check.
graphSyncContactListClearing(contactEvents) ==
    /\ pc = "contactList"
    /\ LET run == insertManyContacts(EmptyTable,
                      IF Len(contactEvents) > 0
                      THEN contactsOfEvent(contactEvents[1]) ELSE <<>>, now)
       IN /\ contacts' = run.db
          /\ IF run.threw
             THEN pc' = "idle" /\ depth' = 0 /\ result' = syncResult("exit1")
             ELSE pc' = "muteList" /\ UNCHANGED <<depth, result>>
    /\ UNCHANGED <<mutes, graph_cache, now>>

\* The contact-list query resolved with contactEvents: with a record,
\* clearContacts then bulkInsertContacts of its p tags; then the mute-list
\* query is sent. A bulk insert that throws ends the command in the catch block.
graphSyncContactList(contactEvents) ==
    /\ pc = "contactList"
    /\ LET run == syncContactList(contacts, contactEvents, now)
       IN /\ contacts' = run.db
          /\ IF run.threw
             THEN pc' = "idle" /\ depth' = 0 /\ result' = syncResult("exit1")
             ELSE pc' = "muteList" /\ UNCHANGED <<depth, result>>
    /\ UNCHANGED <<mutes, graph_cache, now>>

\* Mutant of graphSyncBuildCache: the cache is built for depth > 2 only.
graphSyncBuildCacheDeeperOnly ==
    /\ graph_cache' = IF depth > 2 THEN EmptyTable ELSE graph_cache
    /\ IF depth > 2 /\ Cardinality(contactPubkeys) > 0
       THEN pc' = "followLists" /\ UNCHANGED <<depth, result>>
       ELSE pc' = "idle" /\ depth' = 0 /\ result' = syncResult("done")

\* The steps after the mute list: with depth > 1 the cache is cleared and,
\* when there are contacts, the follow-list query is sent; else the
\* statistics are printed and the command ends.
graphSyncBuildCache ==
    /\ graph_cache' = IF depth > 1 THEN EmptyTable ELSE graph_cache
    /\ IF depth > 1 /\ Cardinality(contactPubkeys) > 0
       THEN pc' = "followLists" /\ UNCHANGED <<depth, result>>
       ELSE pc' = "idle" /\ depth' = 0 /\ result' = syncResult("done")

\* The mute-list query resolved with muteEvents: with a record, clearMutes
\* then bulkInsertMutes of its p tags; then the cache steps.
graphSyncMuteList(muteEvents) ==
    /\ pc = "muteList"
    /\ LET run == syncMuteList(mutes, muteEvents, now)
       IN /\ mutes' = run.db
          /\ IF run.threw
             THEN /\ pc' = "idle" /\ depth' = 0 /\ result' = syncResult("exit1")
                  /\ UNCHANGED graph_cache
             ELSE graphSyncBuildCache
    /\ UNCHANGED <<contacts, now>>

\* The follow-list query resolved with followsEvents; statistics, then the end.
graphSyncFollowLists(followsEvents) ==
    /\ pc = "followLists"
    /\ LET run == cacheFollowLists(graph_cache, followsEvents, now)
       IN /\ graph_cache' = run.db
          /\ result' = syncResult(IF run.threw THEN "exit1" ELSE "done")
    /\ pc' = "idle"
    /\ depth' = 0
    /\ UNCHANGED <<contacts, mutes, now>>

\* Mutant of graphSyncError: the rejection is caught per step and the next
\* step runs.
graphSyncErrorContinuing ==
    /\ pc \in {"contactList", "muteList", "followLists"}
    /\ IF pc = "contactList"
       THEN pc' = "muteList" /\ UNCHANGED <<depth, result, graph_cache>>
       ELSE IF pc = "muteList"
            THEN graphSyncBuildCache
            ELSE /\ pc' = "idle" /\ depth' = 0 /\ result' = syncResult("done")
                 /\ UNCHANGED graph_cache
    /\ UNCHANGED <<contacts, mutes, now>>

\* The awaited query rejected: the catch block ends the command.
graphSyncError ==
    /\ pc \in {"contactList", "muteList", "followLists"}
    /\ pc' = "idle"
    /\ depth' = 0
    /\ result' = syncResult("exit1")
    /\ UNCHANGED <<contacts, mutes, graph_cache, now>>

\* ------------------------------------------------------------------ commands

\* followCommand from the resolved target on: the self check, then addContact.
followCommand(targetPubkey, relay, petname) ==
    IF targetPubkey = myPublicKey
    THEN pc = "idle" /\ UNCHANGED vars
    ELSE addContact(targetPubkey, relay, petname)

\* unfollowCommand from the resolved target on.
unfollowCommand(targetPubkey) == removeContact(targetPubkey)

\* muteCommand from the resolved target on.
muteCommand(targetPubkey) == addMute(targetPubkey)

\* unmuteCommand from the resolved target on.
unmuteCommand(targetPubkey) == removeMute(targetPubkey)

\* ------------------------------------------------------------------ command line

\* The pubkey references a command is given: 64 hex characters in lower or in
\* upper case, an npub or an nprofile of a pubkey, a valid NIP-19 identifier
\* of another type, a string that is none of these, and no argument.
REFERENCES ==
    {[form |-> "hex", text |-> t] : t \in {"m", "a", "b", "M", "A"}} \cup
    {[form |-> f, text |-> t] : f \in {"npub", "nprofile"}, t \in {"m", "a"}} \cup
    {[form |-> "note", text |-> "id"],
     [form |-> "other", text |-> "a!"],
     [form |-> "empty", text |-> ""]}

\* String.prototype.toLowerCase on the hex digits of the references.
toLowerCase(text) ==
    IF text = "M" THEN "m" ELSE IF text = "A" THEN "a" ELSE text

\* isNip19(value): nip19.decode(value) does not throw.
isNip19(ref) == ref.form \in {"npub", "nprofile", "note"}

\* extractPubkey(value): the pubkey of an npub or nprofile, else it throws.
extractPubkey(ref) ==
    IF ref.form \in {"npub", "nprofile"}
    THEN [threw |-> FALSE, pubkey |-> ref.text]
    ELSE [threw |-> TRUE, pubkey |-> UNDEFINED]

\* Mutant of resolvePubkey: a reference of any form is taken as it is.
resolvePubkeyUnchecked(ref) ==
    IF isNip19(ref) /\ ~extractPubkey(ref).threw THEN extractPubkey(ref)
    ELSE [threw |-> FALSE, pubkey |-> toLowerCase(ref.text)]

\* resolvePubkey(ref).
resolvePubkey(ref) ==
    IF isNip19(ref) THEN extractPubkey(ref)
    ELSE IF ref.form = "hex" THEN [threw |-> FALSE, pubkey |-> toLowerCase(ref.text)]
    ELSE [threw |-> TRUE, pubkey |-> UNDEFINED]

\* What a run of a command leaves in result: its exit code, null while it
\* runs, and the calls it made that reach outside the process, with the
\* message of a removal that found no row.
commandResult(op, exit, log) == [op |-> op, exit |-> exit, log |-> log]

closeBoth == <<"closeSocialDb", "closePool">>

\* The checks every command starts with: the argument is there and resolves.
argumentFails(pubkeyRef) ==
    pubkeyRef.form = "empty" \/ resolvePubkey(pubkeyRef).threw

\* process.exit(1) before anything was written.
exitEarly(op) ==
    /\ pc' = "idle"
    /\ result' = commandResult(op, 1, <<>>)
    /\ UNCHANGED <<contacts, mutes>>

\* The end of a command after its store write: with publish, the list is
\* signed and publishEvent awaited, and a throw of the signing is a warning;
\* then closeSocialDb and closePool.
publishList(op, log, publish, signs) ==
    IF ~publish
    THEN pc' = "idle" /\ result' = commandResult(op, 0, log \o closeBoth)
    ELSE IF ~signs
    THEN /\ pc' = "idle"
         /\ result' = commandResult(op, 0,
                          log \o <<"createSignedEvent", "warning">> \o closeBoth)
    ELSE /\ pc' = "publishList"
         /\ result' = commandResult(op, null,
                          log \o <<"createSignedEvent", "publishEvent">>)

\* Mutant of follow: no comparison of the target with the own pubkey.
followAnyone(pubkeyRef, publish, signs) ==
    /\ pc = "idle"
    /\ IF argumentFails(pubkeyRef)
       THEN exitEarly("follow")
       ELSE /\ contacts' = insertOrReplace(contacts, resolvePubkey(pubkeyRef).pubkey,
                                           contactRow(UNDEFINED, UNDEFINED, now))
            /\ UNCHANGED mutes
            /\ publishList("follow", <<"addContact">>, publish, signs)
    /\ UNCHANGED <<graph_cache, now, depth>>

\* clawstr follow <ref>: followCommand as a whole.
follow(pubkeyRef, publish, signs) ==
    /\ pc = "idle"
    /\ IF argumentFails(pubkeyRef)
       THEN exitEarly("follow")
       ELSE IF resolvePubkey(pubkeyRef).pubkey = myPublicKey
       THEN exitEarly("follow")
       ELSE /\ contacts' = insertOrReplace(contacts, resolvePubkey(pubkeyRef).pubkey,
                                           contactRow(UNDEFINED, UNDEFINED, now))
            /\ UNCHANGED mutes
            /\ publishList("follow", <<"addContact">>, publish, signs)
    /\ UNCHANGED <<graph_cache, now, depth>>

\* Mutant of unfollow: the list is published whether a row was removed or not.
unfollowAlwaysPublishing(pubkeyRef, publish, signs) ==
    /\ pc = "idle"
    /\ IF argumentFails(pubkeyRef)
       THEN exitEarly("unfollow")
       ELSE /\ contacts' = deleteRow(contacts, resolvePubkey(pubkeyRef).pubkey)
            /\ UNCHANGED mutes
            /\ publishList("unfollow", <<"removeContact">>, publish, signs)
    /\ UNCHANGED <<graph_cache, now, depth>>

\* clawstr unfollow <ref>: unfollowCommand as a whole.
unfollow(pubkeyRef, publish, signs) ==
    /\ pc = "idle"
    /\ IF argumentFails(pubkeyRef)
       THEN exitEarly("unfollow")
       ELSE /\ contacts' = deleteRow(contacts, resolvePubkey(pubkeyRef).pubkey)
            /\ UNCHANGED mutes
            /\ IF ~removeContactReturns(resolvePubkey(pubkeyRef).pubkey)
               THEN /\ pc' = "idle"
                    /\ result' = commandResult("unfollow", 0,
                                     <<"removeContact", "Not following">> \o closeBoth)
               ELSE publishList("unfollow", <<"removeContact">>, publish, signs)
    /\ UNCHANGED <<graph_cache, now, depth>>

\* clawstr mute <ref>: muteCommand as a whole.
mute(pubkeyRef, publish, signs) ==
    /\ pc = "idle"
    /\ IF argumentFails(pubkeyRef)
       THEN exitEarly("mute")
       ELSE /\ mutes' = insertOrReplace(mutes, resolvePubkey(pubkeyRef).pubkey,
                                        [added_at |-> now])
            /\ UNCHANGED contacts
            /\ publishList("mute", <<"addMute">>, publish, signs)
    /\ UNCHANGED <<graph_cache, now, depth>>

\* clawstr unmute <ref>: unmuteCommand as a whole.
unmute(pubkeyRef, publish, signs) ==
    /\ pc = "idle"
    /\ IF argumentFails(pubkeyRef)
       THEN exitEarly("unmute")
       ELSE /\ mutes' = deleteRow(mutes, resolvePubkey(pubkeyRef).pubkey)
            /\ UNCHANGED contacts
            /\ IF ~removeMuteReturns(resolvePubkey(pubkeyRef).pubkey)
               THEN /\ pc' = "idle"
                    /\ result' = commandResult("unmute", 0,
                                     <<"removeMute", "Not muted">> \o closeBoth)
               ELSE publishList("unmute", <<"removeMute">>, publish, signs)
    /\ UNCHANGED <<graph_cache, now, depth>>

\* Mutant of publishListSettles: without an acknowledgement the command fails.
publishListSettlesOrFails(threw, published) ==
    /\ pc = "publishList"
    /\ pc' = "idle"
    /\ result' = [result EXCEPT
                      !.exit = IF threw \/ published = 0 THEN 1 ELSE 0,
                      !.log = @ \o (IF threw THEN <<"warning">> ELSE <<>>) \o closeBoth]
    /\ UNCHANGED <<contacts, mutes, graph_cache, now, depth>>

\* The awaited publishEvent settled: it threw, which is a warning, or it
\* returned the relays that acknowledged, none included; then closeSocialDb
\* and closePool, and the command returns.
publishListSettles(threw, published) ==
    /\ pc = "publishList"
    /\ pc' = "idle"
    /\ result' = [result EXCEPT
                      !.exit = 0,
                      !.log = @ \o (IF threw THEN <<"warning">> ELSE <<>>) \o closeBoth]
    /\ UNCHANGED <<contacts, mutes, graph_cache, now, depth>>

\* ------------------------------------------------------------------ publish

\* The relays a command publishes to: a list without duplicates, never empty.
RELAY_URLS == {"wss://r1", "wss://r2", "wss://r3"}
TargetRelays ==
    {relays \in SeqsUpTo(RELAY_URLS, MaxRelays) :
         /\ relays # <<>>
         /\ \A i, j \in DOMAIN relays : i # j => relays[i] # relays[j]}

\* The commands that publish a signed event.
COMMANDS == {"event", "post", "reply", "react"}

\* Mutant of forEachSettled: the relays are pushed as their promises settle.
RECURSIVE forEachSettledInSettleOrder(_, _, _)
forEachSettledInSettleOrder(publish, i, results) ==
    IF i > Len(publish.settledOrder) THEN results
    ELSE forEachSettledInSettleOrder(publish, i + 1,
             IF publish.promises[publish.settledOrder[i]] = "fulfilled"
             THEN Append(results, publish.relays[publish.settledOrder[i]])
             ELSE results)

\* settled.forEach((result, i) => ...) from index i on: relays[i] is pushed
\* when its promise is fulfilled.
RECURSIVE forEachSettled(_, _, _)
forEachSettled(publish, i, results) ==
    IF i > Len(publish.relays) THEN results
    ELSE forEachSettled(publish, i + 1,
             IF publish.promises[i] = "fulfilled"
             THEN Append(results, publish.relays[i])
             ELSE results)

\* Mutant of reportPublished: success needs every relay.
reportPublishedByAll(published, targetRelays) ==
    IF Len(published) = Len(targetRelays)
    THEN [stdout |-> <<"signedEvent">>, exit |-> 0]
    ELSE [stdout |-> <<>>, exit |-> 1]

\* What a command does with the relays publishEvent returned: the signed
\* event on stdout, or process.exit(1).
reportPublished(published, targetRelays) ==
    IF Len(published) > 0
    THEN [stdout |-> <<"signedEvent">>, exit |-> 0]
    ELSE [stdout |-> <<>>, exit |-> 1]

\* A command up to the await in publishEvent: pool.publish has sent the event
\* to every relay, one promise each.
publishCommand(command, targetRelays) ==
    /\ pc = "idle"
    /\ pc' = "allSettled"
    /\ result' = [op |-> "publish", command |-> command, relays |-> targetRelays,
                  promises |-> [i \in DOMAIN targetRelays |-> "pending"],
                  settledOrder |-> <<>>, published |-> <<>>,
                  stdout |-> <<>>, exit |-> null]
    /\ UNCHANGED <<contacts, mutes, graph_cache, now, depth>>

\* The promise of relay i settles: the relay accepted the event, or the
\* send failed.
publishSettles(i, status) ==
    /\ pc = "allSettled"
    /\ i \in DOMAIN result.promises
    /\ result.promises[i] = "pending"
    /\ result' = [result EXCEPT !.promises[i] = status,
                                !.settledOrder = Append(@, i)]
    /\ UNCHANGED <<contacts, mutes, graph_cache, now, pc, depth>>

\* Promise.allSettled resolved: publishEvent returns the relays it pushed.
publishEventReturns ==
    /\ pc = "allSettled"
    /\ \A i \in DOMAIN result.promises : result.promises[i] # "pending"
    /\ pc' = "published"
    /\ result' = [result EXCEPT !.published = forEachSettled(result, 1, <<>>)]
    /\ UNCHANGED <<contacts, mutes, graph_cache, now, depth>>

\* The command goes on after its await.
publishCommandReports ==
    /\ pc = "published"
    /\ pc' = "idle"
    /\ result' = [result EXCEPT
                      !.stdout = reportPublished(result.published, result.relays).stdout,
                      !.exit = reportPublished(result.published, result.relays).exit]
    /\ UNCHANGED <<contacts, mutes, graph_cache, now, depth>>

\* ------------------------------------------------------------------ query

\* The events the relays hold, and the filters of a query: a filter matches
\* on kind.
STORED_EVENTS == {[id |-> "e1", kind |-> 3], [id |-> "e2", kind |-> 10000]}
FILTERS == {[kinds |-> {3}], [kinds |-> {10000}], [kinds |-> {3, 10000}]}

matches(f, event) == event.kind \in f.kinds

\* What pool.querySync(relays, f) can resolve with: events that match f, each
\* once, in the order they arrived.
querySyncResults(f) ==
    {events \in SeqsUpTo({e \in STORED_EVENTS : matches(f, e)}, Cardinality(STORED_EVENTS)) :
         \A i, j \in DOMAIN events : i # j => events[i] # events[j]}

\* Array.isArray(filter) ? filter : [filter].
filtersOf(filter) == IF filter.isArray THEN filter.value ELSE <<filter.value>>

\* Mutant of pushAll: an event that is in allEvents is not pushed again.
RECURSIVE pushAllNew(_, _)
pushAllNew(allEvents, events) ==
    IF events = <<>> THEN allEvents
    ELSE pushAllNew(IF Head(events) \in Range(allEvents) THEN allEvents
                    ELSE Append(allEvents, Head(events)),
                    Tail(events))

\* allEvents.push(...events).
pushAll(allEvents, events) == allEvents \o events

\* queryEvents up to its first await: the query of the first filter is sent,
\* or, without a filter, the empty result is returned.
queryEvents(filter) ==
    /\ pc = "idle"
    /\ pc' = IF filtersOf(filter) = <<>> THEN "idle" ELSE "querySync"
    /\ result' = [op |-> "query", filters |-> filtersOf(filter),
                  sent |-> IF filtersOf(filter) = <<>> THEN 0 ELSE 1,
                  resolved |-> <<>>, allEvents |-> <<>>]
    /\ UNCHANGED <<contacts, mutes, graph_cache, now, depth>>

\* The awaited querySync resolved with events: they are pushed, and the
\* loop sends the query of the next filter or ends.
querySyncResolves(events) ==
    /\ pc = "querySync"
    /\ events \in querySyncResults(result.filters[Len(result.resolved) + 1])
    /\ LET last == Len(result.resolved) + 1 = Len(result.filters)
       IN /\ pc' = IF last THEN "idle" ELSE "querySync"
          /\ result' = [result EXCEPT !.resolved = Append(@, events),
                                      !.allEvents = pushAll(@, events),
                                      !.sent = IF last THEN @ ELSE @ + 1]
    /\ UNCHANGED <<contacts, mutes, graph_cache, now, depth>>

\* ------------------------------------------------------------------ stream filter

\* The characters of the input of the stream filter: a space, a line feed, a
\* character that starts no JSON text, and two JSON texts taken as one
\* character each, an object without a pubkey member and an event of ALICE.
SP == " "
LF == "\n"
TEXT == "x"
OBJECT == "{}"
EVENT == "{pubkey:a}"
CHARS == {SP, LF, TEXT, OBJECT, EVENT}

isWhiteSpace(c) == c \in {SP, LF}

\* String.prototype.trimStart, trimEnd and trim.
RECURSIVE trimStart(_)
trimStart(s) ==
    IF s # <<>> /\ isWhiteSpace(Head(s)) THEN trimStart(Tail(s)) ELSE s

RECURSIVE trimEnd(_)
trimEnd(s) ==
    IF s # <<>> /\ isWhiteSpace(s[Len(s)]) THEN trimEnd(SubSeq(s, 1, Len(s) - 1)) ELSE s

trim(s) == trimEnd(trimStart(s))

\* String.prototype.split(separator): the pieces between the separators, the
\* empty ones included.
RECURSIVE split(_, _)
split(s, separator) ==
    IF \A i \in DOMAIN s : s[i] # separator THEN <<s>>
    ELSE LET i == MIN({j \in DOMAIN s : s[j] = separator})
         IN <<SubSeq(s, 1, i - 1)>> \o split(SubSeq(s, i + 1, Len(s)), separator)

\* JSON.parse(line) followed by the read of event.pubkey: white space around
\* the one JSON text is skipped, anything else throws a SyntaxError.
JSONparse(line) ==
    LET text == trim(line)
    IN IF Len(text) = 1 /\ text[1] \in {OBJECT, EVENT}
       THEN [threw |-> FALSE, pubkey |-> IF text[1] = EVENT THEN ALICE ELSE UNDEFINED]
       ELSE [threw |-> TRUE, pubkey |-> UNDEFINED]

\* input.trim().split('\n').filter(Boolean).
linesOf(input) == SelectSeq(split(trim(input), LF), LAMBDA line : line # <<>>)

\* The loop over the lines: what console.log wrote, and the two counters.
RECURSIVE filterLines(_, _, _, _)
filterLines(lines, myPubkey, maxDistance, out) ==
    IF lines = <<>> THEN out
    ELSE LET line == Head(lines)
             event == JSONparse(line)
             emit == [out EXCEPT !.stdout = Append(@, line), !.passed = @ + 1]
             drop == [out EXCEPT !.filtered = @ + 1]
         IN filterLines(Tail(lines), myPubkey, maxDistance,
                IF event.threw THEN emit
                ELSE IF event.pubkey = UNDEFINED THEN emit
                ELSE IF isMuted(event.pubkey) THEN drop
                ELSE IF Len(filterByTrustDistance(<<event.pubkey>>, myPubkey,
                                                  maxDistance)) > 0
                THEN emit
                ELSE drop)

\* graphFilterCommand up to its await: maxDistance is fixed, stdin is read.
graphFilterStart(maxDistance) ==
    /\ pc = "idle"
    /\ pc' = "stdin"
    /\ result' = [op |-> "graphFilter", status |-> "reading", maxDistance |-> maxDistance]
    /\ UNCHANGED <<contacts, mutes, graph_cache, now, depth>>

\* stdin ended with input: the lines are filtered, the counters printed.
graphFilterStdinEnd(input) ==
    /\ pc = "stdin"
    /\ pc' = "idle"
    /\ result' = [op |-> "graphFilter", status |-> "done",
                  maxDistance |-> result.maxDistance, stdin |-> input] @@
                  filterLines(linesOf(input), myPublicKey, result.maxDistance,
                              [stdout |-> <<>>, passed |-> 0, filtered |-> 0])
    /\ UNCHANGED <<contacts, mutes, graph_cache, now, depth>>

\* ------------------------------------------------------------------ specifications

\* The arguments of bulkInsertContacts: rows without relay hint or petname.
ContactItems == {[pubkey |-> p, relay |-> UNDEFINED, petname |-> UNDEFINED] : p \in PUBKEYS}

\* The tags of a list record: references to pubkeys, and one tag of another type.
Tags == {<<"p", p>> : p \in PUBKEYS} \cup {<<"e", "id">>}

\* The records a relay can return for a kind and a set of authors.
Events(kind, authors) ==
    {[pubkey |-> a, kind |-> kind, tags |-> ts] : a \in authors, ts \in SeqsUpTo(Tags, MaxLen)}

\* The whole store as the library's callers (the unit tests) drive it.
Next ==
    \/ \E p \in PUBKEYS : addContact(p, UNDEFINED, UNDEFINED)
    \/ \E p \in PUBKEYS : removeContact(p)
    \/ clearContacts
    \/ \E items \in SeqsUpTo(ContactItems, MaxLen) : bulkInsertContacts(items)
    \/ \E p \in PUBKEYS : addMute(p)
    \/ \E p \in PUBKEYS : removeMute(p)
    \/ clearMutes
    \/ \E ps \in SeqsUpTo(PUBKEYS, MaxLen) : bulkInsertMutes(ps)
    \/ \E s \in PUBKEYS, follows \in SeqsUpTo(PUBKEYS, MaxLen), d \in DISTANCES :
           /\ updateGraphCache(s, follows, d)
           /\ Cardinality(DOMAIN graph_cache') <= MaxCached
    \/ clearGraphCache

Spec == Init /\ [][Next]_vars

\* Contacts and the graph cache alone (no mutes), with a larger cache.
DistanceNext ==
    \/ \E p \in PUBKEYS : addContact(p, UNDEFINED, UNDEFINED)
    \/ \E p \in PUBKEYS : removeContact(p)
    \/ clearContacts
    \/ \E items \in SeqsUpTo(ContactItems, MaxLen) : bulkInsertContacts(items)
    \/ \E s \in PUBKEYS, follows \in SeqsUpTo(PUBKEYS, MaxLen), d \in DISTANCES :
           /\ updateGraphCache(s, follows, d)
           /\ Cardinality(DOMAIN graph_cache') <= MaxEdges
    \/ clearGraphCache

SpecDistance == Init /\ [][DistanceNext]_vars

\* The tags of a list record of self: those of Tags, and a p tag that
\* carries no value.
ListTags == Tags \cup {<<"p">>}

\* What the query for the newest list record of self can resolve with: no
\* record, or one.
SelfLists(kind) ==
    SeqsUpTo({[pubkey |-> myPublicKey, kind |-> kind, tags |-> ts] :
                  ts \in SeqsUpTo(ListTags, MaxLen)}, 1)

\* The store as the commands drive it: follow, unfollow, mute, unmute, graph sync.
CmdNext ==
    \/ \E p \in PUBKEYS : followCommand(p, UNDEFINED, UNDEFINED)
    \/ \E p \in PUBKEYS : unfollowCommand(p)
    \/ \E p \in PUBKEYS : muteCommand(p)
    \/ \E p \in PUBKEYS : unmuteCommand(p)
    \/ \E d \in DEPTHS : graphSyncStart(d)
    \/ \E evs \in SelfLists(3) : graphSyncContactList(evs)
    \/ \E evs \in SelfLists(10000) : graphSyncMuteList(evs)
    \/ \E evs \in SeqsUpTo(Events(3, contactPubkeys), MaxEvents) :
           /\ graphSyncFollowLists(evs)
           /\ Cardinality(DOMAIN graph_cache') <= MaxEdges
    \/ graphSyncError

SpecCmd == Init /\ [][CmdNext]_vars

\* The created_at of the records the relays hold.
Timestamps == 1 .. (MaxTime + 1)

\* What queryEvents resolves with for the list query of self ({ kinds,
\* authors: [self], limit: 1 } sent to every relay): the newest record of
\* each relay that answers, in the order of arrival; a p tag may carry no
\* value.
RelayLists(kind) ==
    SeqsUpTo({[pubkey |-> myPublicKey, kind |-> kind, created_at |-> c, tags |-> ts] :
                  c \in Timestamps,
                  ts \in {<<>>, <<<<"p", ALICE>>>>, <<<<"p", BOB>>>>, <<<<"p">>>>}},
             MaxEvents)

\* What queryEvents resolves with for the follow-list query ({ kinds: [3],
\* authors: contactPubkeys }): the records the relays hold of the contacts,
\* an older and a newer one of the same contact included, in the order of
\* arrival.
RelayFollowLists ==
    SeqsUpTo({[pubkey |-> a, kind |-> 3, created_at |-> c, tags |-> ts] :
                  a \in contactPubkeys, c \in Timestamps,
                  ts \in {<<>>, <<<<"p", ALICE>>>>, <<<<"p", BOB>>>>}}, MaxEvents)

\* Graph sync against several relays.
SyncNext ==
    \/ \E d \in DEPTHS : graphSyncStart(d)
    \/ \E evs \in RelayLists(3) : graphSyncContactList(evs)
    \/ \E evs \in RelayLists(10000) : graphSyncMuteList(evs)
    \/ \E evs \in RelayFollowLists : graphSyncFollowLists(evs)
    \/ graphSyncError

SpecSync == Init /\ [][SyncNext]_vars

\* The four list commands as the command line runs them, with and without
\* publishing.
CliNext ==
    \/ \E ref \in REFERENCES, publish \in BOOLEAN, signs \in BOOLEAN :
           follow(ref, publish, signs)
    \/ \E ref \in REFERENCES, publish \in BOOLEAN, signs \in BOOLEAN :
           unfollow(ref, publish, signs)
    \/ \E ref \in REFERENCES, publish \in BOOLEAN, signs \in BOOLEAN :
           mute(ref, publish, signs)
    \/ \E ref \in REFERENCES, publish \in BOOLEAN, signs \in BOOLEAN :
           unmute(ref, publish, signs)
    \/ \E threw \in BOOLEAN, published \in 0..MaxRelays :
           publishListSettles(threw, published)

SpecCli == Init /\ [][CliNext]_vars

\* The publishing commands against relays that accept or fail in any order.
PublishNext ==
    \/ \E command \in COMMANDS, relays \in TargetRelays : publishCommand(command, relays)
    \/ \E i \in 1..MaxRelays, status \in {"fulfilled", "rejected"} : publishSettles(i, status)
    \/ publishEventReturns
    \/ publishCommandReports

SpecPublish == Init /\ [][PublishNext]_vars

\* The arguments of queryEvents: one filter, or a list of up to MaxFilters.
QueryArguments ==
    {[isArray |-> FALSE, value |-> f] : f \in FILTERS} \cup
    {[isArray |-> TRUE, value |-> fs] : fs \in SeqsUpTo(FILTERS, MaxFilters)}

QueryNext ==
    \/ \E filter \in QueryArguments : queryEvents(filter)
    \/ \E events \in SeqsUpTo(STORED_EVENTS, Cardinality(STORED_EVENTS)) :
           querySyncResolves(events)

SpecQuery == Init /\ [][QueryNext]_vars

\* The stream filter over every input of up to MaxInput characters, on the
\* stores where ALICE is unknown, a contact, a follow of the contact BOB,
\* or muted.
FilterNext ==
    \/ \E p \in {ALICE, BOB} : followCommand(p, UNDEFINED, UNDEFINED)
    \/ \E p \in {ALICE, BOB} : unfollowCommand(p)
    \/ muteCommand(ALICE)
    \/ unmuteCommand(ALICE)
    \/ updateGraphCache(BOB, <<ALICE>>, 1)
    \/ \E maxDistance \in MAX_DISTANCES : graphFilterStart(maxDistance)
    \/ \E input \in SeqsUpTo(CHARS, MaxInput) : graphFilterStdinEnd(input)

SpecFilter == Init /\ [][FilterNext]_vars

\* The web-of-trust fixture of the graph tests: the set-up calls in any
\* order and at any second, then the queries of the tests.
fixtureApplied ==
    /\ isContact(ALICE)
    /\ isContact(BOB)
    /\ \E e \in DOMAIN graph_cache : e[1] = ALICE
    /\ \E e \in DOMAIN graph_cache : e[1] = BOB
    /\ isMuted(SPAMMER)

\* expect(getTrustDistance(target, ME)) of the tests, on the complete fixture.
queryTrustDistance(target) ==
    /\ pc = "idle"
    /\ fixtureApplied
    /\ result' = [op |-> "getTrustDistance", target |-> target,
                  value |-> getTrustDistance(target, ME)]
    /\ UNCHANGED <<contacts, mutes, graph_cache, now, pc, depth>>

\* filterByTrustDistance(feedAuthors, ME, maxDistance) of the tests, on the
\* complete fixture.
queryFilter(maxDistance) ==
    /\ pc = "idle"
    /\ fixtureApplied
    /\ result' = [op |-> "filterByTrustDistance", maxDistance |-> maxDistance,
                  value |-> filterByTrustDistance(feedAuthors, ME, maxDistance)]
    /\ UNCHANGED <<contacts, mutes, graph_cache, now, pc, depth>>

FixtureNext ==
    \/ addContact(ALICE, UNDEFINED, UNDEFINED)
    \/ addContact(BOB, UNDEFINED, UNDEFINED)
    \/ updateGraphCache(ALICE, <<CHARLIE, DAVE>>, 1)
    \/ updateGraphCache(BOB, <<DAVE, EVE>>, 1)
    \/ addMute(SPAMMER)
    \/ Tick
    \/ \E target \in Range(feedAuthors) : queryTrustDistance(target)
    \/ \E d \in MAX_DISTANCES : queryFilter(d)

SpecFixture == Init /\ [][FixtureNext]_vars

\* The contact and mute stores as their unit tests drive them: rows with
\* relay hints and petnames, written at different seconds.
STORE_PUBKEYS == {ALICE, BOB}
RELAYS == {UNDEFINED, "wss://relay.damus.io"}
PETNAMES == {UNDEFINED, "alice"}

\* The rows bulkInsertContacts is given: with and without a relay hint.
StoreItems ==
    {[pubkey |-> p, relay |-> r, petname |-> UNDEFINED] : p \in STORE_PUBKEYS, r \in RELAYS}

StoreItemLists == SeqsUpTo(StoreItems, MaxLen)
StoreMuteLists == SeqsUpTo(STORE_PUBKEYS, MaxLen)

StoreNext ==
    \/ \E p \in STORE_PUBKEYS, r \in RELAYS, n \in PETNAMES : addContact(p, r, n)
    \/ \E p \in STORE_PUBKEYS : removeContact(p)
    \/ clearContacts
    \/ \E items \in StoreItemLists : bulkInsertContacts(items)
    \/ \E p \in STORE_PUBKEYS : addMute(p)
    \/ \E p \in STORE_PUBKEYS : removeMute(p)
    \/ clearMutes
    \/ \E ps \in StoreMuteLists : bulkInsertMutes(ps)
    \/ Tick

SpecStore == Init /\ [][StoreNext]_vars

\* The three batch writers given lists in which an element can be undefined
\* (an array built from tags that lack the value, as graph sync builds them).
BatchPubkeyLists == SeqsUpTo(STORE_PUBKEYS \cup {UNDEFINED}, MaxLen)

BatchItemLists ==
    SeqsUpTo({[pubkey |-> p, relay |-> UNDEFINED, petname |-> UNDEFINED] :
                  p \in STORE_PUBKEYS \cup {UNDEFINED}}, MaxLen)

BatchNext ==
    \/ \E items \in BatchItemLists : bulkInsertContacts(items)
    \/ \E ps \in BatchPubkeyLists : bulkInsertMutes(ps)
    \/ \E follows \in BatchPubkeyLists :
           /\ updateGraphCache(ALICE, follows, 1)
           /\ Cardinality(DOMAIN graph_cache') <= MaxCached
    \/ Tick

SpecBatch == Init /\ [][BatchNext]_vars

\* ------------------------------------------------------------------ store handle

\* In SpecDb, result holds the module state of db.ts and the database file's
\* schema: db is the module-level handle (null, or the number of the Database
\* object), open the Database objects not yet closed, opened how many were
\* constructed, schema the tables the file has, fn the last function called
\* and first whether that call found db null.
TABLES == {"contacts", "mutes", "graph_cache", "sync_state"}

socialDbState(db, open, opened, schema, fn, first) ==
    [op |-> "socialDb", db |-> db, open |-> open, opened |-> opened,
     schema |-> schema, fn |-> fn, first |-> first]

\* Mutant of createTableIfNotExists: the table is created afresh at each open.
createTableAfresh(schema, name, tbl) == EmptyTable

\* CREATE TABLE IF NOT EXISTS name: a table the file has keeps its rows.
createTableIfNotExists(schema, name, tbl) ==
    IF name \in schema THEN tbl ELSE EmptyTable

\* initSocialDb() on module state s: the handle when there is one, else a
\* new Database on SOCIAL_DB_PATH, on which the four tables are created.
initSocialDb(s) ==
    IF s.db # null
    THEN s
    ELSE [s EXCEPT !.db = s.opened + 1,
                   !.open = @ \cup {s.opened + 1},
                   !.opened = @ + 1,
                   !.schema = TABLES]

\* The rows of table name that a store function finds through getSocialDb().
getSocialDb(s, name, tbl) ==
    IF s.db # null THEN tbl ELSE createTableIfNotExists(s.schema, name, tbl)

\* The calls of the store functions a process makes.
StoreCalls ==
    {[fn |-> f, pubkey |-> p] :
        f \in {"addContact", "removeContact", "isContact", "addMute",
               "removeMute", "updateGraphCache"},
        p \in STORE_PUBKEYS}

\* A store function is called: getSocialDb(), then its statement.
storeCall(call) ==
    /\ pc = "idle"
    /\ result.op = "socialDb"
    /\ result.db # null \/ result.opened < MaxOpens
    /\ LET c == getSocialDb(result, "contacts", contacts)
           m == getSocialDb(result, "mutes", mutes)
           g == getSocialDb(result, "graph_cache", graph_cache)
       IN /\ contacts' =
                 IF call.fn = "addContact"
                 THEN insertOrReplace(c, call.pubkey,
                                      contactRow(UNDEFINED, UNDEFINED, now))
                 ELSE IF call.fn = "removeContact"
                      THEN deleteRow(c, call.pubkey)
                      ELSE c
          /\ mutes' =
                 IF call.fn = "addMute"
                 THEN insertOrReplace(m, call.pubkey, [added_at |-> now])
                 ELSE IF call.fn = "removeMute"
                      THEN deleteRow(m, call.pubkey)
                      ELSE m
          /\ graph_cache' =
                 IF call.fn = "updateGraphCache"
                 THEN insertManyEdges(g, myPublicKey, <<call.pubkey>>, 1, now).db
                 ELSE g
    /\ result' = [initSocialDb(result) EXCEPT !.fn = call.fn,
                                               !.first = (result.db = null)]
    /\ UNCHANGED <<now, pc, depth>>

\* closeSocialDb(): with a handle, db.close() and db = null.
closeSocialDb ==
    /\ pc = "idle"
    /\ result.op = "socialDb"
    /\ result' =
           IF result.db # null
           THEN [result EXCEPT !.open = @ \ {result.db}, !.db = null,
                               !.fn = "closeSocialDb", !.first = FALSE]
           ELSE [result EXCEPT !.fn = "closeSocialDb", !.first = FALSE]
    /\ UNCHANGED <<contacts, mutes, graph_cache, now, pc, depth>>

\* Before the first use: no file, no handle.
DbInit ==
    /\ contacts = EmptyTable
    /\ mutes = EmptyTable
    /\ graph_cache = EmptyTable
    /\ now = 0
    /\ pc = "idle"
    /\ depth = 0
    /\ result = socialDbState(null, {}, 0, {}, "none", FALSE)

DbNext ==
    \/ \E call \in StoreCalls : storeCall(call)
    \/ closeSocialDb
    \/ Tick

SpecDb == DbInit /\ [][DbNext]_vars

\* ------------------------------------------------------------------ trust distance

\* C1: for every pubkey X, in every reachable state of the contacts and
\* graph cache tables, getTrustDistance(X, X) is 0.
C1_SelfDistanceZero == \A x \in PUBKEYS : getTrustDistance(x, x) = 0

\* X is itself a contact row and the target of a contact's cached edge.
C1_Witness ==
    \E x \in PUBKEYS :
        /\ x \in contactPubkeys
        /\ cacheRows(x) # {}
        /\ getTrustDistance(x, x) = 0

\* The edge (c, t) is cached with distance 1 and c is a contact.
cachedAtOne(c, t) ==
    /\ c \in contactPubkeys
    /\ <<c, t>> \in DOMAIN graph_cache
    /\ graph_cache[<<c, t>>].distance = 1

\* C3 as stated: whenever C is a contact and the edge (C, T) is cached with
\* distance 1, getTrustDistance(T, self) is 2.
C3_Original ==
    \A c \in PUBKEYS, t \in PUBKEYS :
        cachedAtOne(c, t) => getTrustDistance(t, myPublicKey) = 2

\* C3 amended: whenever C is a contact and the edge (C, T) is cached with
\* distance 1, and T is neither self nor a contact, and no contact's cached
\* edge to T has a distance below 1, getTrustDistance(T, self) is 2; for T =
\* self it is 0 and for T a contact it is 1.
C3_Amended ==
    \A c \in PUBKEYS, t \in PUBKEYS :
        cachedAtOne(c, t) =>
            /\ (t = myPublicKey => getTrustDistance(t, myPublicKey) = 0)
            /\ (t # myPublicKey /\ t \in contactPubkeys =>
                    getTrustDistance(t, myPublicKey) = 1)
            /\ (/\ t # myPublicKey
                /\ t \notin contactPubkeys
                /\ \A e \in cacheRows(t) : graph_cache[e].distance >= 1
                => getTrustDistance(t, myPublicKey) = 2)

\* A follow of a follow: T is cached at distance 1 behind the contact C and
\* is neither self nor a contact.
C3_Witness ==
    \E c \in PUBKEYS, t \in PUBKEYS :
        /\ cachedAtOne(c, t)
        /\ t # myPublicKey
        /\ t \notin contactPubkeys
        /\ getTrustDistance(t, myPublicKey) = 2

\* S is no contact row and no cached edge has S as its target.
stranger(s) ==
    /\ s \notin contactPubkeys
    /\ \A e \in DOMAIN graph_cache : e[2] # s

\* C4 as stated: getTrustDistance(S, self) is null for any pubkey S that is
\* no contact and no target of a cached edge.
C4_Original ==
    \A s \in PUBKEYS : stranger(s) => getTrustDistance(s, myPublicKey) = null

\* C4 amended: getTrustDistance(S, self) is null for any pubkey S other than
\* self that is no contact and no target of a cached edge; for self it is 0.
C4_Amended ==
    \A s \in PUBKEYS :
        stranger(s) =>
            getTrustDistance(s, myPublicKey) = (IF s = myPublicKey THEN 0 ELSE null)

\* A stranger that is the source of a cached edge to a contact.
C4_Witness ==
    \E s \in PUBKEYS \ {myPublicKey} :
        /\ stranger(s)
        /\ \E e \in DOMAIN graph_cache : e[1] = s /\ e[2] \in contactPubkeys
        /\ getTrustDistance(s, myPublicKey) = null

\* The distances cached for t behind sources that are contacts now.
contactDistances(t) ==
    {graph_cache[e].distance : e \in {x \in DOMAIN graph_cache :
                                          x[2] = t /\ isContact(x[1])}}

\* C5: for a target that is neither self nor a contact, getTrustDistance is
\* one more than the least distance cached behind a current contact, and it
\* is null when no current contact is a source of the target, whatever rows
\* of other sources remain in the cache.
C5_MinOverContactSources ==
    \A t \in PUBKEYS, me \in PUBKEYS :
        (t # me /\ t \notin contactPubkeys) =>
            /\ (contactDistances(t) = {} <=> getTrustDistance(t, me) = null)
            /\ (contactDistances(t) # {} =>
                    /\ getTrustDistance(t, me) - 1 \in contactDistances(t)
                    /\ \A d \in contactDistances(t) : getTrustDistance(t, me) - 1 <= d)

\* The target keeps a cached edge of distance 0 behind a source that is no
\* contact, and resolves through its contact source of distance 1.
C5_Witness ==
    \E t \in PUBKEYS \ {myPublicKey}, s \in PUBKEYS :
        /\ t \notin contactPubkeys
        /\ s \notin contactPubkeys
        /\ <<s, t>> \in DOMAIN graph_cache
        /\ graph_cache[<<s, t>>].distance = 0
        /\ contactDistances(t) = {1}
        /\ getTrustDistance(t, myPublicKey) = 2

\* ------------------------------------------------------------------ trust filter

\* The author lists filterByTrustDistance is asked about.
AuthorLists == SeqsUpTo(PUBKEYS, MaxAuthors)

\* C6: filterByTrustDistance never returns a pubkey that is in mutes, for
\* every input list and every maxDistance.
C6_MutedNeverReturned ==
    \A authors \in AuthorLists, d \in MAX_DISTANCES :
        \A p \in Range(filterByTrustDistance(authors, myPublicKey, d)) : ~isMuted(p)

\* Self and a direct contact are both muted, and both are dropped at the
\* largest maxDistance.
C6_Witness ==
    \E p \in PUBKEYS \ {myPublicKey} :
        /\ isMuted(myPublicKey)
        /\ isMuted(p)
        /\ isContact(p)
        /\ filterByTrustDistance(<<myPublicKey, p>>, myPublicKey, 2) = <<>>

\* C7: a non-muted author of the input is kept exactly when its trust
\* distance is known and at most maxDistance; an author of unknown distance
\* is dropped for every maxDistance; self, when not muted, is kept for every
\* maxDistance >= 0.
C7_KeptIffWithinDistance ==
    \A authors \in AuthorLists, d \in MAX_DISTANCES :
        LET kept == Range(filterByTrustDistance(authors, myPublicKey, d)) IN
        \A a \in Range(authors) :
            ~isMuted(a) =>
                /\ a \in kept <=> (/\ getTrustDistance(a, myPublicKey) # null
                                   /\ getTrustDistance(a, myPublicKey) <= d)
                /\ (a = myPublicKey /\ d >= 0 => a \in kept)

\* One author at unknown distance, one direct contact and self, none muted:
\* the first is dropped at the largest maxDistance, self alone is kept at 0.
C7_Witness ==
    \E c \in PUBKEYS, u \in PUBKEYS :
        /\ ~isMuted(c) /\ ~isMuted(u) /\ ~isMuted(myPublicKey)
        /\ getTrustDistance(c, myPublicKey) = 1
        /\ getTrustDistance(u, myPublicKey) = null
        /\ filterByTrustDistance(<<u, myPublicKey, c>>, myPublicKey, 2) = <<myPublicKey, c>>
        /\ filterByTrustDistance(<<u, myPublicKey, c>>, myPublicKey, 1) = <<myPublicKey, c>>
        /\ filterByTrustDistance(<<u, myPublicKey, c>>, myPublicKey, 0) = <<myPublicKey>>

RECURSIVE IsSubsequence(_, _)
IsSubsequence(r, s) ==
    IF r = <<>> THEN TRUE
    ELSE IF s = <<>> THEN FALSE
    ELSE IF Head(r) = Head(s) THEN IsSubsequence(Tail(r), Tail(s))
    ELSE IsSubsequence(r, Tail(s))

\* The elements of s that are in the set K, in the order of s.
Restrict(s, K) == SelectSeq(s, LAMBDA x : x \in K)

\* C8: the result of filterByTrustDistance is a subsequence of its input in
\* the input's order, with every occurrence of a kept author kept and every
\* occurrence of a dropped author dropped; the empty input gives the empty
\* result for every maxDistance.
C8_OrderPreservingSubsequence ==
    \A authors \in AuthorLists, d \in MAX_DISTANCES :
        LET kept == filterByTrustDistance(authors, myPublicKey, d) IN
        /\ IsSubsequence(kept, authors)
        /\ kept = Restrict(authors, Range(kept))
        /\ authors = <<>> => kept = <<>>

\* A contact repeated around a muted author and self: the contact is kept at
\* both places, in the input's order.
C8_Witness ==
    \E c \in PUBKEYS, x \in PUBKEYS :
        /\ isMuted(x)
        /\ filterByTrustDistance(<<c, x, c, myPublicKey, x>>, myPublicKey, 1)
           = <<c, c, myPublicKey>>

\* C10: a clearGraphCache step deletes every graph_cache row and leaves the
\* membership of contacts and of mutes unchanged; the distance of self (0)
\* and of every direct contact (1) is the same before and after it.
C10_ClearKeepsContactsAndMutes ==
    [][clearGraphCache =>
          /\ graph_cache' = EmptyTable
          /\ DOMAIN contacts' = DOMAIN contacts
          /\ DOMAIN mutes' = DOMAIN mutes
          /\ \A x \in PUBKEYS, me \in PUBKEYS :
                 (x = me \/ isContact(x)) =>
                     /\ getTrustDistance(x, me) = (IF x = me THEN 0 ELSE 1)
                     /\ getTrustDistance(x, me)' = getTrustDistance(x, me)]_vars

\* A state clearGraphCache is called in with rows in all three tables.
C10_Witness ==
    /\ pc = "idle"
    /\ DOMAIN contacts # {}
    /\ DOMAIN mutes # {}
    /\ DOMAIN graph_cache # {}
    /\ \E x \in PUBKEYS \ {myPublicKey} : getTrustDistance(x, myPublicKey) = 2

\* ------------------------------------------------------------------ contacts of self

\* C2: in every state the commands reach, every pubkey that is a row of
\* contacts has trust distance 1 from self.
C2_ContactsAtDistanceOne ==
    pc = "idle" => \A c \in contactPubkeys : getTrustDistance(c, myPublicKey) = 1

\* ------------------------------------------------------------------ fixture scenario

\* C9: on the fixture (self ME, contacts ALICE and BOB, ALICE -> CHARLIE, DAVE
\* and BOB -> DAVE, EVE cached at distance 1, SPAMMER muted) the distance of
\* CHARLIE and of EVE is 2 and that of STRANGER is unknown; the feed filtered
\* at maxDistance 1 is ME, ALICE, BOB and at maxDistance 2 it is ME, ALICE,
\* BOB, CHARLIE, DAVE, EVE.
C9_FixtureScenario ==
    /\ result.op = "getTrustDistance" =>
           /\ (result.target \in {CHARLIE, EVE} => result.value = 2)
           /\ (result.target = STRANGER => result.value = null)
    /\ result.op = "filterByTrustDistance" =>
           /\ (result.maxDistance = 1 => result.value = <<ME, ALICE, BOB>>)
           /\ (result.maxDistance = 2 =>
                   result.value = <<ME, ALICE, BOB, CHARLIE, DAVE, EVE>>)

\* The feed was filtered at maxDistance 2 on the complete fixture.
C9_Witness ==
    /\ fixtureApplied
    /\ result.op = "filterByTrustDistance"
    /\ result.maxDistance = 2
    /\ result.value = <<ME, ALICE, BOB, CHARLIE, DAVE, EVE>>

\* ------------------------------------------------------------------ contact and mute stores

\* C11: an addContact or addMute step leaves exactly one row for its pubkey,
\* and the count grows by one when the pubkey was absent and stays as it was
\* when the pubkey was present, however often the add is repeated.
C11_AddIdempotentOnMembership ==
    [][\A p \in STORE_PUBKEYS :
          /\ (\E r \in RELAYS, n \in PETNAMES : addContact(p, r, n)) =>
                 /\ isContact(p)'
                 /\ DOMAIN contacts' = DOMAIN contacts \cup {p}
                 /\ getContactCount' = getContactCount + (IF isContact(p) THEN 0 ELSE 1)
          /\ addMute(p) =>
                 /\ isMuted(p)'
                 /\ DOMAIN mutes' = DOMAIN mutes \cup {p}
                 /\ getMuteCount' = getMuteCount + (IF isMuted(p) THEN 0 ELSE 1)]_vars

\* A pubkey added as contact and as mute at second 0 next to another row of
\* each table, one second later: a repeated add changes the row, not the count.
C11_Witness ==
    /\ pc = "idle"
    /\ now = 1
    /\ getContactCount = 2 /\ contacts[ALICE].added_at = 0
    /\ getMuteCount = 2 /\ mutes[ALICE].added_at = 0

\* C12: after addContact(p, relay, petname) the row of p holds exactly the
\* relay and petname of this call, NULL for an argument left out, and the
\* current second as added_at, whatever the row held before.
C12_AddReplacesWholeRow ==
    [][\A p \in STORE_PUBKEYS, r \in RELAYS, n \in PETNAMES :
          addContact(p, r, n) =>
              contacts'[p] = [relay |-> IF r = UNDEFINED THEN NULL ELSE r,
                              petname |-> IF n = UNDEFINED THEN NULL ELSE n,
                              added_at |-> now]]_vars

\* A row with relay hint and petname written at second 0, one second later:
\* an addContact without them is about to replace it.
C12_Witness ==
    \E p \in STORE_PUBKEYS :
        /\ pc = "idle"
        /\ isContact(p)
        /\ contacts[p].relay # NULL
        /\ contacts[p].petname # NULL
        /\ contacts[p].added_at < now

\* The rows of tbl other than key are the rows of tbl2 other than key.
sameElsewhere(tbl, tbl2, key) ==
    /\ (DOMAIN tbl) \ {key} = (DOMAIN tbl2) \ {key}
    /\ \A k \in (DOMAIN tbl) \ {key} : tbl[k] = tbl2[k]

\* C13: removeContact(p) and removeMute(p) return true exactly when p has a
\* row; after the step p has no row and every other row is as it was, and
\* the removal of an absent pubkey changes nothing.
C13_RemoveReturnsWhetherPresent ==
    /\ [](\A p \in STORE_PUBKEYS :
            /\ removeContactReturns(p) <=> isContact(p)
            /\ removeMuteReturns(p) <=> isMuted(p))
    /\ [][\A p \in STORE_PUBKEYS :
            /\ removeContact(p) =>
                   /\ ~isContact(p)'
                   /\ sameElsewhere(contacts, contacts', p)
                   /\ (~isContact(p) => contacts' = contacts)
            /\ removeMute(p) =>
                   /\ ~isMuted(p)'
                   /\ sameElsewhere(mutes, mutes', p)
                   /\ (~isMuted(p) => mutes' = mutes)]_vars

\* One pubkey has a row in both tables and the other has a row in neither:
\* the removals of the first return true, those of the second false.
C13_Witness ==
    \E p \in STORE_PUBKEYS, q \in STORE_PUBKEYS :
        /\ pc = "idle"
        /\ isContact(p) /\ isMuted(p)
        /\ ~isContact(q) /\ ~isMuted(q)
        /\ removeContactReturns(p) /\ removeMuteReturns(p)
        /\ ~removeContactReturns(q) /\ ~removeMuteReturns(q)

\* C14: a clearContacts step empties contacts and leaves mutes and
\* graph_cache as they were; a clearMutes step empties mutes and leaves
\* contacts and graph_cache as they were.
C14_ClearLeavesOtherTables ==
    [][/\ clearContacts =>
             /\ contacts' = EmptyTable
             /\ getContactCount' = 0
             /\ mutes' = mutes
             /\ graph_cache' = graph_cache
       /\ clearMutes =>
             /\ mutes' = EmptyTable
             /\ getMuteCount' = 0
             /\ contacts' = contacts
             /\ graph_cache' = graph_cache]_vars

\* Two contacts, two mutes and a cached edge: either clear has rows to
\* delete and rows of the other tables to keep.
C14_Witness ==
    /\ pc = "idle"
    /\ getContactCount >= 2
    /\ getMuteCount >= 2
    /\ getGraphStats.totalEdges >= 1

\* C15: in every state and for every input list, the table bulkInsertContacts
\* or bulkInsertMutes leaves has as many rows as there are distinct pubkeys
\* among the prior rows and the input; a pubkey repeated in the input is
\* stored with the relay hint of its last occurrence; rows of other pubkeys
\* are as they were, and the empty input changes nothing.
C15_BulkInsertDeduplicates ==
    /\ \A items \in StoreItemLists :
           LET after == insertManyContacts(contacts, items, now).db
               keys == {items[i].pubkey : i \in DOMAIN items}
           IN /\ Cardinality(DOMAIN after) = Cardinality(DOMAIN contacts \cup keys)
              /\ \A i \in DOMAIN items :
                     (\A j \in DOMAIN items : j > i => items[j].pubkey # items[i].pubkey)
                     => after[items[i].pubkey] =
                            [relay |-> IF items[i].relay = UNDEFINED
                                       THEN NULL ELSE items[i].relay,
                             petname |-> NULL,
                             added_at |-> now]
              /\ \A k \in DOMAIN contacts \ keys : after[k] = contacts[k]
              /\ (items = <<>> => after = contacts)
    /\ \A ps \in StoreMuteLists :
           LET after == insertManyMutes(mutes, ps, now).db
           IN /\ Cardinality(DOMAIN after) = Cardinality(DOMAIN mutes \cup Range(ps))
              /\ \A k \in DOMAIN mutes \ Range(ps) : after[k] = mutes[k]
              /\ (ps = <<>> => after = mutes)

\* Both pubkeys were written in the same later second, one with a relay
\* hint and one without, as a batch of the two writes them; the mutes too.
C15_Witness ==
    /\ pc = "idle"
    /\ now = 1
    /\ getContactCount = 2
    /\ contacts[ALICE] = [relay |-> "wss://relay.damus.io", petname |-> NULL, added_at |-> 1]
    /\ contacts[BOB] = [relay |-> NULL, petname |-> NULL, added_at |-> 1]
    /\ getMuteCount = 2
    /\ \A p \in STORE_PUBKEYS : mutes[p].added_at = 1

\* C16: in every state and for every batch, a bulkInsertContacts,
\* bulkInsertMutes or updateGraphCache call in which the insert of some row
\* fails throws and leaves its table exactly as it was before the call, rows
\* written before the failing one included; a call in which no insert fails
\* leaves every row of the batch in the table.
C16_BatchAllOrNothing ==
    /\ \A items \in BatchItemLists :
           LET run == insertManyContacts(contacts, items, now)
           IN IF \E i \in DOMAIN items : items[i].pubkey = UNDEFINED
              THEN run = [db |-> contacts, threw |-> TRUE]
              ELSE /\ ~run.threw
                   /\ \A i \in DOMAIN items :
                          /\ items[i].pubkey \in DOMAIN run.db
                          /\ run.db[items[i].pubkey].added_at = now
    /\ \A ps \in BatchPubkeyLists :
           LET run == insertManyMutes(mutes, ps, now)
           IN IF UNDEFINED \in Range(ps)
              THEN run = [db |-> mutes, threw |-> TRUE]
              ELSE /\ ~run.threw
                   /\ \A p \in Range(ps) :
                          p \in DOMAIN run.db /\ run.db[p].added_at = now
    /\ \A follows \in BatchPubkeyLists :
           LET run == insertManyEdges(graph_cache, ALICE, follows, 1, now)
           IN IF UNDEFINED \in Range(follows)
              THEN run = [db |-> graph_cache, threw |-> TRUE]
              ELSE /\ ~run.threw
                   /\ \A t \in Range(follows) :
                          /\ <<ALICE, t>> \in DOMAIN run.db
                          /\ run.db[<<ALICE, t>>].updated_at = now

\* A batch whose first row is new and whose second row fails, on tables
\* that hold an older row: the loop writes the first row before it throws,
\* and the transaction gives the table back as it was.
C16_Witness ==
    LET items == <<[pubkey |-> ALICE, relay |-> UNDEFINED, petname |-> UNDEFINED],
                   [pubkey |-> UNDEFINED, relay |-> UNDEFINED, petname |-> UNDEFINED]>>
    IN /\ pc = "idle"
       /\ now = 1
       /\ DOMAIN contacts = {BOB} /\ DOMAIN mutes = {BOB}
       /\ DOMAIN graph_cache = {<<ALICE, BOB>>}
       /\ forEachContact(contacts, items, now).db # contacts
       /\ insertManyContacts(contacts, items, now) = [db |-> contacts, threw |-> TRUE]
       /\ forEachMute(mutes, <<ALICE, UNDEFINED>>, now).db # mutes
       /\ insertManyMutes(mutes, <<ALICE, UNDEFINED>>, now).db = mutes
       /\ forEachFollow(graph_cache, ALICE, <<BOB, UNDEFINED>>, 1, now).db # graph_cache
       /\ insertManyEdges(graph_cache, ALICE, <<BOB, UNDEFINED>>, 1, now).db = graph_cache

\* ------------------------------------------------------------------ graph cache

\* The follow lists and the edges updateGraphCache(s, follows, d) writes.
FollowLists == SeqsUpTo(PUBKEYS, MaxLen)
edgesOf(s, follows) == {<<s, follows[i]>> : i \in DOMAIN follows}

\* C17: in every state, the cache updateGraphCache(S, targets, d) leaves
\* holds the distance d for every pair (S, target) of the list, a larger d
\* than the one stored included; it has one more row for each pair that was
\* not cached and none for a pair that was; and every other row, the edges
\* of S to targets not in the list included, is as it was.
C17_EdgeUpsertOverwrites ==
    \A s \in PUBKEYS, follows \in FollowLists, d \in DISTANCES :
        LET after == insertManyEdges(graph_cache, s, follows, d, now).db
        IN /\ \A e \in edgesOf(s, follows) : after[e].distance = d
           /\ Cardinality(DOMAIN after) =
                  Cardinality(DOMAIN graph_cache \cup edgesOf(s, follows))
           /\ \A e \in DOMAIN graph_cache \ edgesOf(s, follows) :
                  /\ e \in DOMAIN after
                  /\ after[e] = graph_cache[e]

\* A source with one edge of distance 1 and one of distance 0, as a call
\* with distance 0 for both targets and then one with distance 1 for the
\* first target alone leave them.
C17_Witness ==
    \E s \in PUBKEYS, t \in PUBKEYS, u \in PUBKEYS :
        /\ t # u
        /\ DOMAIN graph_cache = {<<s, t>>, <<s, u>>}
        /\ graph_cache[<<s, t>>].distance = 1
        /\ graph_cache[<<s, u>>].distance = 0

\* C18: in every state getGraphStats gives the number of rows as
\* totalEdges, the number of pubkeys that are the target of some row as
\* totalNodes (a pubkey that is a source only is not counted), and as
\* maxDistance the greatest stored distance, or 0 for the empty cache.
C18_GraphStats ==
    /\ getGraphStats.totalEdges = Cardinality(DOMAIN graph_cache)
    /\ getGraphStats.totalNodes =
           Cardinality({t \in PUBKEYS : \E s \in PUBKEYS : <<s, t>> \in DOMAIN graph_cache})
    /\ (DOMAIN graph_cache = {} => getGraphStats.maxDistance = 0)
    /\ (DOMAIN graph_cache # {} =>
           /\ \E e \in DOMAIN graph_cache :
                  graph_cache[e].distance = getGraphStats.maxDistance
           /\ \A e \in DOMAIN graph_cache :
                  graph_cache[e].distance <= getGraphStats.maxDistance)

\* Two sources cached with the same target, at distances 0 and 1: two
\* edges, one node, maxDistance 1.
C18_Witness ==
    \E s \in PUBKEYS, r \in PUBKEYS, t \in PUBKEYS :
        /\ s # r /\ t # s /\ t # r
        /\ DOMAIN graph_cache = {<<s, t>>, <<r, t>>}
        /\ graph_cache[<<s, t>>].distance = 0
        /\ graph_cache[<<r, t>>].distance = 1
        /\ getGraphStats = [totalNodes |-> 1, totalEdges |-> 2, maxDistance |-> 1]

\* ------------------------------------------------------------------ graph sync

\* The pubkeys a list record references: the values of its p tags.
referencedPubkeys(event) ==
    {t[2] : t \in {x \in Range(event.tags) : Len(x) >= 2 /\ x[1] = "p"}}

\* C19: whenever the contact-list step of a graph sync is given a record of
\* self, contacts is afterwards exactly the set of pubkeys the record
\* references, whatever it held before; and mutes likewise after the
\* mute-list step.
C19_SyncReplacesLists ==
    [][/\ \A evs \in SelfLists(3) :
             (Len(evs) > 0 /\ graphSyncContactList(evs)) =>
                 DOMAIN contacts' = referencedPubkeys(evs[1])
       /\ \A evs \in SelfLists(10000) :
             (Len(evs) > 0 /\ graphSyncMuteList(evs)) =>
                 DOMAIN mutes' = referencedPubkeys(evs[1])]_vars

\* C20: a contact-list step given no record leaves contacts as it was and
\* goes on to the mute-list query; a mute-list step given no record leaves
\* mutes as it was and goes on to the cache steps (the cache is cleared for
\* depth > 1 and the follow lists are queried when there are contacts); a
\* follow-list step given no record leaves the cache as it was; none of the
\* three ends the sync with a failure.
C20_NoRecordLeavesListUnchanged ==
    [][/\ graphSyncContactList(<<>>) =>
             /\ contacts' = contacts
             /\ pc' = "muteList"
             /\ result' = syncResult("running")
       /\ graphSyncMuteList(<<>>) =>
             /\ mutes' = mutes
             /\ graph_cache' = IF depth > 1 THEN EmptyTable ELSE graph_cache
             /\ IF depth > 1 /\ DOMAIN contacts # {}
                THEN pc' = "followLists" /\ result' = syncResult("running")
                ELSE pc' = "idle" /\ result' = syncResult("done")
       /\ graphSyncFollowLists(<<>>) =>
             /\ graph_cache' = graph_cache
             /\ pc' = "idle"
             /\ result' = syncResult("done")]_vars

\* A sync of depth 2 ended normally with rows in contacts and mutes and an
\* empty cache, as one that was given no record at any of its three steps
\* ends on a store with local follows and mutes.
C20_Witness ==
    /\ pc = "idle"
    /\ result = syncResult("done")
    /\ DOMAIN contacts # {} /\ myPublicKey \notin DOMAIN contacts
    /\ DOMAIN mutes # {}
    /\ graph_cache = EmptyTable

\* ------------------------------------------------------------------ C21

C24_NoSelfEdges ==
    \A e \in DOMAIN graph_cache : e[1] # e[2]

\* ------------------------------------------------------------------ C25

\* C25: in every state reached from the empty store by follow, unfollow,
\* mute, unmute and graph sync, the trust distance of every pubkey is 0, 1, 2
\* or unknown.
C25_DistanceAtMostTwo ==
    \A x \in PUBKEYS : getTrustDistance(x, myPublicKey) \in {0, 1, 2, null}

\* A finished sync after which a pubkey is at distance 2.
C25_Witness ==
    /\ result = syncResult("done")
    /\ \E x \in PUBKEYS : getTrustDistance(x, myPublicKey) = 2

\* ------------------------------------------------------------------ C23

\* The edges the follow-list records reference: (record author, pubkey of a
\* p tag).
referencedEdges(followsEvents) ==
    UNION {edgesOf(followsEvents[i].pubkey, pubkeysOfEvent(followsEvents[i])) :
               i \in DOMAIN followsEvents}

\* C23: a graph sync with depth <= 1 never changes the graph cache; the mute
\* step of a sync with depth > 1 that does not fail empties the cache and,
\* when there are contacts, sends the follow-list query, the same for depth 2
\* and for every larger depth; and whatever records that query returns, the
\* cache is then exactly the edges they reference, each at distance 1.
C23_DepthIsBinary ==
    /\ [](pc = "followLists" =>
             /\ depth > 1
             /\ graph_cache = EmptyTable
             /\ \A evs \in SeqsUpTo(Events(3, contactPubkeys), MaxEvents) :
                    LET run == cacheFollowLists(graph_cache, evs, now)
                    IN /\ ~run.threw
                       /\ DOMAIN run.db = referencedEdges(evs)
                       /\ \A e \in DOMAIN run.db : run.db[e].distance = 1)
    /\ [][/\ (pc # "idle" /\ depth <= 1) => graph_cache' = graph_cache
          /\ (pc = "muteList" /\ depth > 1 /\ result' # syncResult("exit1")) =>
                 /\ graph_cache' = EmptyTable
                 /\ pc' = IF contacts = EmptyTable THEN "idle" ELSE "followLists"]_vars

\* A sync of depth 3 that emptied the cache and awaits the follow lists.
C23_Witness ==
    pc = "followLists" /\ depth = 3 /\ graph_cache = EmptyTable

\* ------------------------------------------------------------------ C22

\* The records of a result have different created_at.
distinctTimes(evs) ==
    \A i, j \in DOMAIN evs : i # j => evs[i].created_at # evs[j].created_at

\* The record of a result with the greatest created_at.
mostRecent(evs) ==
    CHOOSE e \in Range(evs) : \A f \in Range(evs) : f.created_at <= e.created_at

\* C22: whenever the list query of a graph sync resolves with records of
\* different created_at, in whatever order, the contacts (the mutes) after
\* the step are the pubkeys the record with the greatest created_at
\* references.
C22_MostRecentRecordApplied ==
    [][/\ \A evs \in RelayLists(3) :
             (evs # <<>> /\ distinctTimes(evs) /\ graphSyncContactList(evs)) =>
                 DOMAIN contacts' = Range(pubkeysOfEvent(mostRecent(evs)))
       /\ \A evs \in RelayLists(10000) :
             (evs # <<>> /\ distinctTimes(evs) /\ graphSyncMuteList(evs)) =>
                 DOMAIN mutes' = Range(pubkeysOfEvent(mostRecent(evs)))]_vars

\* ------------------------------------------------------------------ C26

\* The lines of the input: the pieces between the line feeds.
inputLines(input) == split(input, LF)

\* A line that is not empty and does not parse, or parses without a pubkey.
malformed(line) ==
    line # <<>> /\ (JSONparse(line).threw \/ JSONparse(line).pubkey = UNDEFINED)

\* C26: after the stream filter ran, whatever the store holds, every line of
\* its input that is not empty and does not parse, or parses without a
\* pubkey, is on the output as it was on the input, in input order, and is
\* counted as passed.
filterDone == result.op = "graphFilter" /\ result.status = "done"

C26_MalformedLinesPassUnchanged ==
    filterDone =>
        LET kept == SelectSeq(inputLines(result.stdin), malformed)
        IN /\ SelectSeq(result.stdout, malformed) = kept
           /\ result.passed >= Len(kept)

\* ------------------------------------------------------------------ C27

\* A line that parses with an author.
authored(line) ==
    ~JSONparse(line).threw /\ JSONparse(line).pubkey # UNDEFINED

\* C27: at every end of stdin, the lines with an author the stream filter
\* writes are the lines with an author of its input whose author
\* filterByTrustDistance keeps at the given maxDistance, each as it was on
\* the input and in input order.
C27_AuthoredLinesFollowTrustFilter ==
    [][(pc = "stdin" /\ pc' = "idle") =>
          SelectSeq(result'.stdout, authored) =
              SelectSeq(inputLines(result'.stdin),
                        LAMBDA line : /\ authored(line)
                                      /\ filterByTrustDistance(<<JSONparse(line).pubkey>>,
                                             myPublicKey, result.maxDistance) # <<>>)]_vars

\* ------------------------------------------------------------------ C28

\* The relays of a publish whose promise is fulfilled.
acknowledgedRelays ==
    {result.relays[i] : i \in {j \in DOMAIN result.relays : result.promises[j] = "fulfilled"}}

\* C28: every relay is sent the event before any send settles; and once
\* publishEvent returned, in whatever order the sends settled, what it
\* returned is the target list restricted to the relays that acknowledged:
\* every one of them, none that failed, in the order of the list.
C28_PublishReturnsAcknowledged ==
    result.op = "publish" =>
        /\ Len(result.promises) = Len(result.relays)
        /\ Range(result.settledOrder) =
               {i \in DOMAIN result.promises : result.promises[i] # "pending"}
        /\ pc # "allSettled" =>
               result.published = Restrict(result.relays, acknowledgedRelays)

\* publishEvent returned the first relay of two, whose send was acknowledged
\* after the send to the second failed.
C28_Witness ==
    /\ result.op = "publish" /\ pc = "published"
    /\ result.settledOrder = <<2, 1>>
    /\ result.promises = <<"fulfilled", "rejected">>
    /\ result.published = <<result.relays[1]>>

\* ------------------------------------------------------------------ C29

\* C29: once a publishing command (event, post, reply, react) has reported,
\* it wrote the signed event to stdout and did not fail if at least one relay
\* acknowledged, and it wrote nothing and ended with exit code 1 if none did.
C29_SuccessIffOneAcknowledged ==
    (result.op = "publish" /\ pc = "idle") =>
        IF acknowledgedRelays # {}
        THEN result.stdout = <<"signedEvent">> /\ result.exit = 0
        ELSE result.stdout = <<>> /\ result.exit = 1

\* A command that succeeded with one relay acknowledging and one failing.
C29_Witness ==
    /\ result.op = "publish" /\ pc = "idle"
    /\ result.exit = 0
    /\ \E i, j \in DOMAIN result.promises :
           result.promises[i] = "fulfilled" /\ result.promises[j] = "rejected"

\* ------------------------------------------------------------------ C30

\* The concatenation of a list of results.
RECURSIVE concatenation(_)
concatenation(results) ==
    IF results = <<>> THEN <<>> ELSE Head(results) \o concatenation(Tail(results))

\* C30: in every state of a queryEvents call, the query of a filter has been
\* sent only if every filter before it has its result (at most one query is
\* awaited, that of the first filter without a result), and the events
\* gathered are the results received so far, concatenated in the order of
\* the filters, an event as many times as results hold it; once the call
\* returned, every filter has its result.
C30_FiltersInTurnNoDeduplication ==
    result.op = "query" =>
        /\ result.sent = IF pc = "querySync" THEN Len(result.resolved) + 1
                         ELSE Len(result.resolved)
        /\ result.allEvents = concatenation(result.resolved)
        /\ pc = "idle" => Len(result.resolved) = Len(result.filters)

\* A returned call with two filters whose results both hold the event e1: it
\* is in the result twice.
C30_Witness ==
    /\ result.op = "query" /\ pc = "idle"
    /\ Len(result.filters) = 2
    /\ \E i, j \in DOMAIN result.allEvents :
           i # j /\ result.allEvents[i] = result.allEvents[j]

\* ------------------------------------------------------------------ C40

\* C40: in every store state, for every input list and every maxDistance d,
\* what filterByTrustDistance keeps at d is a subsequence of what it keeps at
\* d + 1, and at a negative d it keeps nothing.
C40_FilterMonotone ==
    \A authors \in AuthorLists, d \in MAX_DISTANCES :
        /\ IsSubsequence(filterByTrustDistance(authors, myPublicKey, d),
                         filterByTrustDistance(authors, myPublicKey, d + 1))
        /\ d < 0 => filterByTrustDistance(authors, myPublicKey, d) = <<>>

\* Self, a contact and a follow of the contact, none muted: one more is kept
\* at each maxDistance from -1 to 2.
C40_Witness ==
    \E c \in PUBKEYS, t \in PUBKEYS :
        LET all == <<t, c, myPublicKey>> IN
        /\ filterByTrustDistance(all, myPublicKey, 0 - 1) = <<>>
        /\ filterByTrustDistance(all, myPublicKey, 0) = <<myPublicKey>>
        /\ filterByTrustDistance(all, myPublicKey, 1) = <<c, myPublicKey>>
        /\ filterByTrustDistance(all, myPublicKey, 2) = all

\* ------------------------------------------------------------------ C31

tablesUnchanged ==
    contacts' = contacts /\ mutes' = mutes /\ graph_cache' = graph_cache

\* The log of a run holds no signing and no publishing.
nothingPublished(log) ==
    "createSignedEvent" \notin Range(log) /\ "publishEvent" \notin Range(log)

\* C31: every unfollow of a pubkey that is not a contact, and every unmute of
\* a pubkey that is not muted, leaves the three tables as they were, signs
\* and publishes nothing, and ends with exit code 0.
C31_AbsentIsNoOp ==
    [][\A ref \in REFERENCES, publish \in BOOLEAN, signs \in BOOLEAN :
           ~argumentFails(ref) =>
               /\ (~isContact(resolvePubkey(ref).pubkey) /\ unfollow(ref, publish, signs)) =>
                      /\ tablesUnchanged
                      /\ pc' = "idle" /\ result'.exit = 0
                      /\ nothingPublished(result'.log)
               /\ (~isMuted(resolvePubkey(ref).pubkey) /\ unmute(ref, publish, signs)) =>
                      /\ tablesUnchanged
                      /\ pc' = "idle" /\ result'.exit = 0
                      /\ nothingPublished(result'.log)]_vars

\* An unfollow that removed nothing ended with exit code 0 while others are
\* followed.
C31_Witness ==
    /\ pc = "idle"
    /\ result = commandResult("unfollow", 0, <<"removeContact", "Not following">> \o closeBoth)
    /\ contacts # EmptyTable

\* ------------------------------------------------------------------ C32

\* A reference that is neither 64 hex characters nor a NIP-19 identifier,
\* or no argument at all.
malformedReference(ref) == ref.form \in {"other", "empty"}

\* C32: every follow, unfollow, mute and unmute given a malformed reference
\* or no argument ends with exit code 1, having written no table and signed
\* and published nothing.
C32_MalformedReferenceAborts ==
    [][\A ref \in REFERENCES, publish \in BOOLEAN, signs \in BOOLEAN :
           (/\ malformedReference(ref)
            /\ \/ follow(ref, publish, signs)
               \/ unfollow(ref, publish, signs)
               \/ mute(ref, publish, signs)
               \/ unmute(ref, publish, signs)) =>
               /\ tablesUnchanged
               /\ pc' = "idle"
               /\ result'.exit = 1
               /\ result'.log = <<>>]_vars

\* A mute that was refused while the tables hold rows.
C32_Witness ==
    /\ result = commandResult("mute", 1, <<>>)
    /\ contacts # EmptyTable /\ mutes # EmptyTable

\* ------------------------------------------------------------------ C33

\* The last two calls of a run are closeSocialDb and closePool.
endsClosed(log) ==
    Len(log) >= 2 /\ SubSeq(log, Len(log) - 1, Len(log)) = closeBoth

\* C33: when the publishEvent a follow, unfollow, mute or unmute awaits
\* throws or returns no relay, the tables stay as the command wrote them,
\* closeSocialDb and closePool are called, and the exit code is 0; and when
\* the signing throws, the follow or mute has written its row all the same,
\* the two are closed, and the exit code is 0.
C33_PublishFailureIsWarning ==
    [][/\ \A threw \in BOOLEAN, published \in 0..MaxRelays :
             (publishListSettles(threw, published) /\ (threw \/ published = 0)) =>
                 /\ tablesUnchanged
                 /\ pc' = "idle"
                 /\ result'.exit = 0
                 /\ endsClosed(result'.log)
       /\ \A ref \in REFERENCES :
             /\ (follow(ref, TRUE, FALSE) /\ result'.log # <<>>) =>
                    /\ isContact(resolvePubkey(ref).pubkey)'
                    /\ result'.exit = 0 /\ endsClosed(result'.log)
             /\ (mute(ref, TRUE, FALSE) /\ result'.log # <<>>) =>
                    /\ isMuted(resolvePubkey(ref).pubkey)'
                    /\ result'.exit = 0 /\ endsClosed(result'.log)]_vars

\* A mute whose publishEvent threw: the row is there and the exit code is 0.
C33_Witness ==
    /\ result = commandResult("mute", 0,
                    <<"addMute", "createSignedEvent", "publishEvent", "warning">>
                        \o closeBoth)
    /\ mutes # EmptyTable

\* ------------------------------------------------------------------ C39

\* C39: the own pubkey is never in contacts when follow, unfollow, mute and
\* unmute are all that runs; and every follow whose reference resolves to
\* the own pubkey, in whatever form it is written, ends with exit code 1 and
\* leaves contacts as it was.
C39_FollowNeverAddsSelf ==
    /\ [](~isContact(myPublicKey))
    /\ [][\A ref \in REFERENCES, publish \in BOOLEAN, signs \in BOOLEAN :
             (/\ ~argumentFails(ref)
              /\ resolvePubkey(ref).pubkey = myPublicKey
              /\ follow(ref, publish, signs)) =>
                 /\ contacts' = contacts
                 /\ pc' = "idle"
                 /\ result' = commandResult("follow", 1, <<>>)]_vars

\* A follow that was refused while another pubkey is followed and the own
\* pubkey is muted.
C39_Witness ==
    /\ result = commandResult("follow", 1, <<>>)
    /\ contacts # EmptyTable
    /\ isMuted(myPublicKey)

\* ------------------------------------------------------------------ C38

\* C38: after the stream filter ran, passed + filtered is the number of
\* lines of its input that are not empty, and passed is the number of lines
\* on its output.
C38_CountsExact ==
    filterDone =>
        /\ result.passed + result.filtered =
               Len(SelectSeq(inputLines(result.stdin), LAMBDA line : line # <<>>))
        /\ result.passed = Len(result.stdout)

\* ------------------------------------------------------------------ C35

\* The table a store function writes.
writtenBy(fn) ==
    IF fn \in {"addContact", "removeContact"} THEN "contacts"
    ELSE IF fn \in {"addMute", "removeMute"} THEN "mutes"
    ELSE IF fn = "updateGraphCache" THEN "graph_cache"
    ELSE "none"

\* C35: closeSocialDb and the passing of time leave the rows of the three
\* tables as they are; the store function that re-opens the store after a
\* close finds every row written before the close (it leaves the tables it
\* does not write unchanged, and unless it is a removal every key of the
\* table it writes stays); and at any time at most one Database object is
\* open, the one the module-level db refers to.
C35_RowsPersistAcrossReopen ==
    /\ [](result.op = "socialDb" =>
            /\ Cardinality(result.open) <= 1
            /\ result.open = IF result.db = null THEN {} ELSE {result.db})
    /\ [][(result'.fn = "closeSocialDb" \/ now' # now) =>
              (/\ contacts' = contacts
               /\ mutes' = mutes
               /\ graph_cache' = graph_cache)]_vars
    /\ [][(result'.first /\ result' # result) =>
              (/\ writtenBy(result'.fn) # "contacts" => contacts' = contacts
               /\ writtenBy(result'.fn) # "mutes" => mutes' = mutes
               /\ writtenBy(result'.fn) # "graph_cache" => graph_cache' = graph_cache
               /\ result'.fn \notin {"removeContact", "removeMute"} =>
                      /\ DOMAIN contacts \subseteq DOMAIN contacts'
                      /\ DOMAIN mutes \subseteq DOMAIN mutes'
                      /\ DOMAIN graph_cache \subseteq DOMAIN graph_cache')]_vars

\* The store was closed and a read re-opened it: the rows of all three tables
\* written before the close are there.
C35_Witness ==
    /\ result.op = "socialDb"
    /\ result.first
    /\ result.opened >= 2
    /\ result.fn = "isContact"
    /\ contacts # EmptyTable
    /\ mutes # EmptyTable
    /\ graph_cache # EmptyTable

\* ------------------------------------------------------------------ C36

\* A list of records with its record i repeated at position j + 1.
repeated(evs, i, j) == SubSeq(evs, 1, j) \o <<evs[i]>> \o SubSeq(evs, j + 1, Len(evs))

\* The statistics of a cache: its distinct targets and its rows.
statisticsOf(tbl) ==
    [totalNodes |-> Cardinality({e[2] : e \in DOMAIN tbl}),
     totalEdges |-> Cardinality(DOMAIN tbl)]

\* C36: whenever a graph sync awaits the follow lists, for every list of
\* records the query can return and every record of it repeated at any
\* position, the cache and its statistics after the loop are those the list
\* without the repetition gives.
C36_DuplicateRecordsAbsorbed ==
    pc = "followLists" =>
        \A evs \in SeqsUpTo(Events(3, contactPubkeys), MaxEvents) :
            \A i \in DOMAIN evs, j \in 0..Len(evs) :
                LET once == cacheFollowLists(graph_cache, evs, now)
                    twice == cacheFollowLists(graph_cache, repeated(evs, i, j), now)
                IN /\ twice.db = once.db
                   /\ twice.threw = once.threw
                   /\ statisticsOf(twice.db) = statisticsOf(once.db)

\* A sync awaits the follow lists, and a record returned twice leaves rows
\* in the cache.
C36_Witness ==
    /\ pc = "followLists"
    /\ \E e \in Events(3, contactPubkeys) :
           cacheFollowLists(graph_cache, <<e, e>>, now).db # EmptyTable

\* ------------------------------------------------------------------ C37

\* The records of a result that an author wrote.
recordsOf(author, evs) == SelectSeq(evs, LAMBDA e : e.pubkey = author)

\* C37: whenever the follow-list step of a graph sync ends well on records
\* of different created_at, the cached targets of every contact with a
\* record are the pubkeys its record of greatest created_at references.
C37_CacheHoldsMostRecentList ==
    [][\A evs \in RelayFollowLists :
           (/\ distinctTimes(evs)
            /\ graphSyncFollowLists(evs)
            /\ result' = syncResult("done")) =>
               \A c \in contactPubkeys :
                   recordsOf(c, evs) # <<>> =>
                       {e[2] : e \in {x \in DOMAIN graph_cache' : x[1] = c}} =
                           Range(pubkeysOfEvent(mostRecent(recordsOf(c, evs))))]_vars

\* ------------------------------------------------------------------ C34

====
